---- MODULE Spec2Model ----
(***************************************************************************)
(* Clawdbot Arena asset extractor (src/scripts/extract_assets.py) and      *)
(* deck renderer (src/create_presentation_v2.py).                          *)
(*                                                                         *)
(* Several state machines share this module:                               *)
(*   SpecKey   remove_checkered_background, one loop iteration per step    *)
(*   Spec      extract_assets, one descriptor of the ASSETS table per step *)
(*   SpecSplit split_fighter_spritesheet, one frame per step               *)
(*   SpecName  the frame name expression of split_fighter_spritesheet      *)
(*   SpecMain  main, one step, descriptor or spritesheet per step          *)
(*   SpecPix   extract_assets with the pixels of the images it handles     *)
(*   SpecEffect split_effect_spritesheet, one frame per step               *)
(*   SpecRun   main over the literal tables, one file or sheet per step    *)
(*   SpecDeck  create_presentation_v2.main, one group of canvas calls per  *)
(*             step                                                        *)
(* The variables of the machines that a specification does not run keep    *)
(* their idle values.                                                      *)
(***************************************************************************)
EXTENDS Integers, Sequences, FiniteSets, TLC

VARIABLES
    \* remove_checkered_background
    kpc,        \* "call" | "loop" | "returned"
    karg,       \* the image passed by the caller, as it was at the call
    kimage,     \* the local `image` (after the optional convert), mutated in place
    kx, ky,     \* loop variables x and y
    kpass,      \* 1: first application, 2: the filter re-applied to its own output
    \* extract_assets
    epc,            \* "load" | "loop" | "try" | "iterated" | "returned"
    srcLoadable,    \* whether Image.open / convert of the source succeeds
    srcSize,        \* source.size, <<width, height>>
    strictCrop,     \* the installed Pillow rejects a box with right < left or lower < upper
    emptySaveFails, \* the installed Pillow refuses to write an image without pixels
    nAssets,        \* len(ASSETS)
    elog,           \* per descriptor attempted, in order: "OK" or "ERROR" as printed
    extracted_count,
    files,          \* the descriptors (by position in ASSETS) whose output was saved
    cur,            \* the locals of the iteration: region, crop_box, cropped size, outcome
    eret,           \* the value returned: "none" | TRUE | FALSE
    summary,        \* the numbers of the final `Extracted N/M assets` line
    \* split_fighter_spritesheet
    spc,            \* "check" | "loop" | "done" | "skipped" | "failed"
    sheetExists,    \* os.path.exists(spritesheet_path)
    sheetSize,      \* sheet.size, <<sheet_width, sheet_height>>
    frameSize,      \* <<actual_frame_width, actual_frame_height>>
    frame_idx,
    srow, scol,     \* loop variables row and col
    frames,         \* the frame files written: name, index, grid cell, crop box
    \* the frame name expression of split_fighter_spritesheet on its own
    npc,            \* "call" | "named"
    nidx,           \* frame_idx
    nname,          \* anim_name
    \* main
    mpc,            \* "check" | "dirs" | "load" | "assets" | "fighters" | "effects"
                    \* | "manifest" | "summary" | "ended"
    srcExists,      \* os.path.exists(SOURCE_IMAGE) at line 422
    srcLoads,       \* Image.open(source_path) succeeds
    tableLen,       \* len(ASSETS)
    mdirs,          \* the directories made by create_directories
    mlog,           \* what the run printed and did, in order
    mi,             \* position in the loop that is running
    mcount,         \* extracted_count of the extract_assets call
    last,           \* the last spritesheet dealt with and what came of it
    firstSkipped,   \* the first spritesheet found missing, if any
    firstFailed,    \* the first item whose attempt raised, if any
    manifest,       \* the content of animations.json once written
    \* extract_assets at the level of pixels and image objects
    ppc,            \* "load" | "loop" | "cropped" | "keyed" | "returned"
    pheap,          \* the image objects alive: object id -> image
    ploaded,        \* the composite as it was right after loading
    psource,        \* the local `source`: what it refers to
    pcropped,       \* the local `cropped`: what it refers to
    pregion,        \* the region of the descriptor being processed
    pkeyed,         \* positions of the composite whose pixel the last keying
                    \* made transparent in the crop
    pdone,          \* descriptors processed so far
    pwritten,       \* the image file written by the iteration just finished
    \* split_effect_spritesheet
    fxpc,           \* "check" | "open" | "loop" | "done" | "missing" | "failed"
    fxExists,       \* os.path.exists(spritesheet_path)
    fxSize,         \* sheet.size
    expected_frames,
    frame_width,
    fxi,            \* loop variable i
    fxDir,          \* output_dir has been made
    fxFrames,       \* the frame files written: name, index, crop box
    \* one run of main over the literal ASSETS table, file by file
    rpc,            \* "dirs" | "assets" | "fighters" | "effects" | "manifest" | "ended"
    rsize,          \* source.size
    rdirs,          \* the directories that exist under OUTPUT_BASE
    rfiles,         \* the paths written so far in this run
    rewritten,      \* the paths written again after they were written
    ri,             \* position in the loop that is running
    rlast,          \* the last descriptor attempted and what came of it
    rfaults,        \* exceptions met so far
    rsliced,        \* the effects main has asked to slice, with their frame counts
    \* create_presentation_v2.main, one canvas call or group of calls per step
    dpc,            \* where main (or the slide function it called) stands
    dk,             \* position in main of the slide function called last
    dcode,          \* what has been drawn on the page that is open
    dpages,         \* the pages closed so far
    dlog,           \* the slide functions, page breaks and saves so far
    dfile,          \* the PDF file on disk
    dwritable       \* whether the PDF file can be written

keyVars == <<kpc, karg, kimage, kx, ky, kpass>>

extractVars == <<epc, srcLoadable, srcSize, strictCrop, emptySaveFails, nAssets,
                 elog, extracted_count, files, cur, eret, summary>>

splitVars == <<spc, sheetExists, sheetSize, frameSize, frame_idx, srow, scol, frames>>

nameVars == <<npc, nidx, nname>>

mainVars == <<mpc, srcExists, srcLoads, tableLen, mdirs, mlog, mi, mcount, last,
              firstSkipped, firstFailed, manifest>>

pixVars == <<ppc, pheap, ploaded, psource, pcropped, pregion, pkeyed, pdone,
            pwritten>>

effectVars == <<fxpc, fxExists, fxSize, expected_frames, frame_width, fxi, fxDir, fxFrames>>

runVars == <<rpc, rsize, rdirs, rfiles, rewritten, ri, rlast, rfaults, rsliced>>

deckVars == <<dpc, dk, dcode, dpages, dlog, dfile, dwritable>>

vars == <<keyVars, extractVars, splitVars, nameVars, mainVars, pixVars, effectVars, runVars, deckVars>>

\* what each function leaves alone
outsideKey == <<extractVars, splitVars, nameVars, mainVars, pixVars, effectVars, runVars, deckVars>>
outsideExtract == <<keyVars, splitVars, nameVars, mainVars, pixVars, effectVars, runVars, deckVars>>
outsideSplit == <<keyVars, extractVars, nameVars, mainVars, pixVars, effectVars, runVars, deckVars>>
outsideName == <<keyVars, extractVars, splitVars, mainVars, pixVars, effectVars, runVars, deckVars>>
outsideMain == <<keyVars, extractVars, splitVars, nameVars, pixVars, effectVars, runVars, deckVars>>
outsidePix == <<keyVars, extractVars, splitVars, nameVars, mainVars, effectVars, runVars, deckVars>>
outsideEffect == <<keyVars, extractVars, splitVars, nameVars, mainVars, pixVars, runVars, deckVars>>
outsideRun == <<keyVars, extractVars, splitVars, nameVars, mainVars, pixVars, effectVars, deckVars>>
outsideDeck == <<keyVars, extractVars, splitVars, nameVars, mainVars, pixVars, effectVars, runVars>>

----------------------------------------------------------------------------
(* Bounds of the model *)

\* multi-pixel images have at most MaxPixels pixels (width * height)
MaxPixels == 4
\* the ASSETS table has at most MaxAssets descriptors
MaxAssets == 3
\* spritesheets are at most MaxSheetW wide and MaxSheetH high, the literal
\* sizes of the scenarios aside
MaxSheetW == 9
MaxSheetH == 5
\* the frame name expression is evaluated for frame indices 0 .. MaxFrameIdx
MaxFrameIdx == 60
\* split_effect_spritesheet is asked for 0 .. MaxExpectedFrames frames
MaxExpectedFrames == 4
\* a run over the literal tables meets at most MaxFaults exceptions
MaxFaults == 1

(* Program constants of remove_checkered_background *)

\* `abs(r - g) < 10 and abs(g - b) < 10 and abs(r - b) < 10`
GrayTolerance == 10
\* `if 180 <= r <= 220`
GrayLow == 180
GrayHigh == 220
\* alpha given to a pixel by convert('RGBA') of an image without alpha
OpaqueAlpha == 255

----------------------------------------------------------------------------
(* Images: [mode, width, height, px], px a function from <<x, y>> to the   *)
(* pixel tuple (<<r, g, b, a>> for RGBA, <<r, g, b>> for RGB).             *)

Abs(n) == IF n < 0 THEN -n ELSE n
Max(a, b) == IF a >= b THEN a ELSE b
Min(a, b) == IF a <= b THEN a ELSE b

Positions(w, h) == (0 .. w - 1) \X (0 .. h - 1)

\* channel values around every threshold of the filter
Levels == {0, 170, 179, 180, 189, 190, 200, 210, 220, 221, 230, 255}
Alphas == {0, 128, 255}

\* every combination of the channel levels, for one-pixel images
WidePixels == Levels \X Levels \X Levels \X Alphas

\* a small palette for images of several pixels: keyed opaque gray, opaque
\* red, keyed half-transparent near-gray, a transparent pixel out of the band
Palette == { <<200, 200, 200, 255>>, <<200, 0, 0, 255>>,
             <<190, 195, 199, 128>>, <<10, 20, 30, 0>> }

Shapes == { s \in (0 .. MaxPixels) \X (0 .. MaxPixels) : s[1] * s[2] <= MaxPixels }

DropAlpha(p) == <<p[1], p[2], p[3]>>

ImagesOf(mode, pixels, shapes) ==
    UNION { { [mode |-> mode, width |-> s[1], height |-> s[2], px |-> f] :
                f \in [Positions(s[1], s[2]) -> pixels] } : s \in shapes }

\* the images remove_checkered_background is called with
KeyInputs ==
    ImagesOf("RGBA", Palette, Shapes)
        \cup ImagesOf("RGB", { DropAlpha(p) : p \in Palette }, Shapes)
        \cup ImagesOf("RGBA", WidePixels, { <<1, 1>> })
        \cup ImagesOf("RGB", Levels \X Levels \X Levels, { <<1, 1>> })

----------------------------------------------------------------------------
(* remove_checkered_background *)

\* image.convert('RGBA'): a new image; a pixel without alpha becomes opaque
ConvertRGBA(image) ==
    IF image.mode = "RGBA" THEN image
    ELSE [image EXCEPT !.mode = "RGBA",
                       !.px = [q \in DOMAIN image.px |->
                                 <<image.px[q][1], image.px[q][2], image.px[q][3], OpaqueAlpha>>]]

\* mutant: the tolerance taken inclusively
NearGrayInclusive(r, g, b) ==
    Abs(r - g) <= GrayTolerance /\ Abs(g - b) <= GrayTolerance /\ Abs(r - b) <= GrayTolerance

\* `abs(r - g) < 10 and abs(g - b) < 10 and abs(r - b) < 10`
NearGray(r, g, b) ==
    Abs(r - g) < GrayTolerance /\ Abs(g - b) < GrayTolerance /\ Abs(r - b) < GrayTolerance

\* `180 <= r <= 220`
InGrayRange(r) == GrayLow <= r /\ r <= GrayHigh

\* mutant of the loop body: a pixel right of a transparent one is cleared too
KeyPixelNeighbour(pixels, x, y) ==
    LET p == pixels[<<x, y>>]
        leftClear == <<x - 1, y>> \in DOMAIN pixels /\ pixels[<<x - 1, y>>][4] = 0
    IN  IF (NearGray(p[1], p[2], p[3]) /\ InGrayRange(p[1])) \/ leftClear
        THEN [pixels EXCEPT ![<<x, y>>] = <<p[1], p[2], p[3], 0>>]
        ELSE pixels

\* mutants of the loop body: grays normalised to the red level; alpha halved
\* instead of cleared
KeyPixelFlatten(pixels, x, y) ==
    LET p == pixels[<<x, y>>]
    IN  IF NearGray(p[1], p[2], p[3]) /\ InGrayRange(p[1])
        THEN [pixels EXCEPT ![<<x, y>>] = <<p[1], p[1], p[1], 0>>]
        ELSE pixels

KeyPixelFade(pixels, x, y) ==
    LET p == pixels[<<x, y>>]
    IN  IF NearGray(p[1], p[2], p[3]) /\ InGrayRange(p[1])
        THEN [pixels EXCEPT ![<<x, y>>] = <<p[1], p[2], p[3], p[4] \div 2>>]
        ELSE pixels

\* the body of the loop at (x, y): reads pixels[x, y], may write pixels[x, y]
KeyPixel(pixels, x, y) ==
    LET p == pixels[<<x, y>>]
        r == p[1]
        g == p[2]
        b == p[3]
    IN  IF NearGray(r, g, b)
        THEN IF InGrayRange(r)
             THEN [pixels EXCEPT ![<<x, y>>] = <<r, g, b, 0>>]
             ELSE pixels
        ELSE pixels

\* `for y in range(height): for x in range(width)`: the positions in the
\* order the loop visits them
RowMajor(w, h) == [i \in 1 .. w * h |-> <<(i - 1) % w, (i - 1) \div w>>]

\* the loop body applied at the positions of `order`, in that order
RECURSIVE KeyInOrder(_, _)
KeyInOrder(pixels, order) ==
    IF order = <<>> THEN pixels
    ELSE KeyInOrder(KeyPixel(pixels, Head(order)[1], Head(order)[2]), Tail(order))

\* the whole function on an image: convert, loop row by row, return
RemoveCheckeredBackground(image) ==
    LET img == ConvertRGBA(image)
    IN  [img EXCEPT !.px = KeyInOrder(img.px, RowMajor(img.width, img.height))]

NoRun == <<>>

KeyIdle ==
    /\ kpc = "idle"
    /\ karg = NoRun
    /\ kimage = NoRun
    /\ kx = 0
    /\ ky = 0
    /\ kpass = 0

EnvIdle ==
    /\ strictCrop = FALSE
    /\ emptySaveFails = FALSE

ExtractIdle ==
    /\ epc = "idle"
    /\ srcLoadable = FALSE
    /\ srcSize = <<0, 0>>
    /\ nAssets = 0
    /\ elog = <<>>
    /\ extracted_count = 0
    /\ files = {}
    /\ cur = NoRun
    /\ eret = "none"
    /\ summary = NoRun

NameIdle ==
    /\ npc = "idle"
    /\ nidx = 0
    /\ nname = NoRun

\* no spritesheet dealt with yet
NoSheet == [kind |-> "none", item |-> "none", outcome |-> "none",
            written |-> 0, madeDir |-> FALSE]

MainIdle ==
    /\ mpc = "idle"
    /\ srcExists = FALSE
    /\ srcLoads = FALSE
    /\ tableLen = 0
    /\ mdirs = {}
    /\ mlog = <<>>
    /\ mi = 0
    /\ mcount = 0
    /\ last = NoSheet
    /\ firstSkipped = "none"
    /\ firstFailed = "none"
    /\ manifest = {}

\* a reference to nothing
NoImage == [obj |-> 0, ox |-> 0, oy |-> 0, width |-> 0, height |-> 0]

PixIdle ==
    /\ ppc = "idle"
    /\ pheap = <<>>
    /\ ploaded = <<>>
    /\ psource = NoImage
    /\ pcropped = NoImage
    /\ pregion = <<0, 0, 0, 0>>
    /\ pkeyed = {}
    /\ pdone = 0
    /\ pwritten = {}

EffectIdle ==
    /\ fxpc = "idle"
    /\ fxExists = FALSE
    /\ fxSize = <<0, 0>>
    /\ expected_frames = 0
    /\ frame_width = 0
    /\ fxi = 0
    /\ fxDir = FALSE
    /\ fxFrames = {}

RunIdle ==
    /\ rpc = "idle"
    /\ rsize = <<0, 0>>
    /\ rdirs = {}
    /\ rfiles = {}
    /\ rewritten = {}
    /\ ri = 0
    /\ rlast = NoRun
    /\ rfaults = 0
    /\ rsliced = {}

DeckIdle ==
    /\ dpc = "idle"
    /\ dk = 0
    /\ dcode = <<>>
    /\ dpages = <<>>
    /\ dlog = <<>>
    /\ dfile = [state |-> "none", pages |-> <<>>, writes |-> 0]
    /\ dwritable = FALSE

\* the parts that the three functions above never run
RestIdle == NameIdle /\ MainIdle /\ PixIdle /\ EffectIdle /\ RunIdle /\ DeckIdle

SplitIdle ==
    /\ spc = "idle"
    /\ sheetExists = FALSE
    /\ sheetSize = <<0, 0>>
    /\ frameSize = <<0, 0>>
    /\ frame_idx = 0
    /\ srow = 0
    /\ scol = 0
    /\ frames = {}

InitKey ==
    /\ kpc = "call"
    /\ karg \in KeyInputs
    /\ kimage = karg
    /\ kx = 0
    /\ ky = 0
    /\ kpass = 1
    /\ EnvIdle
    /\ ExtractIdle
    /\ SplitIdle
    /\ RestIdle

\* lines 178-182: convert when needed, load the pixels, read the size
KeyEnter ==
    /\ kpc = "call"
    /\ kimage' = ConvertRGBA(karg)
    /\ kx' = 0
    /\ ky' = 0
    /\ kpc' = "loop"
    /\ UNCHANGED <<karg, kpass, outsideKey>>

\* one iteration of the inner loop, then the loop variables advance
KeyLoopStep ==
    /\ kpc = "loop"
    /\ ky < kimage.height
    /\ kx < kimage.width
    /\ kimage' = [kimage EXCEPT !.px = KeyPixel(kimage.px, kx, ky)]
    /\ IF kx + 1 < kimage.width
       THEN kx' = kx + 1 /\ ky' = ky
       ELSE kx' = 0 /\ ky' = ky + 1
    /\ UNCHANGED <<kpc, karg, kpass, outsideKey>>

\* both ranges are exhausted (at once when a side is 0): `return image`
KeyReturn ==
    /\ kpc = "loop"
    /\ (ky >= kimage.height \/ kimage.width = 0)
    /\ kpc' = "returned"
    /\ UNCHANGED <<karg, kimage, kx, ky, kpass, outsideKey>>

\* the caller applies the filter to the image it got back
KeyAgain ==
    /\ kpc = "returned"
    /\ kpass = 1
    /\ kpass' = 2
    /\ karg' = kimage
    /\ kpc' = "call"
    /\ UNCHANGED <<kimage, kx, ky, outsideKey>>

NextKey == KeyEnter \/ KeyLoopStep \/ KeyReturn \/ KeyAgain

SpecKey == InitKey /\ [][NextKey]_vars

----------------------------------------------------------------------------
(* Claims about remove_checkered_background (SpecKey) *)

Max2(a, b) == IF a >= b THEN a ELSE b

\* the keying condition as the specification words it
IsKeyed(p) ==
    /\ Max2(Abs(p[1] - p[2]), Max2(Abs(p[2] - p[3]), Abs(p[1] - p[3]))) < 10
    /\ p[1] \in 180 .. 220

\* the pixels the loop has been through in the current state
Visited ==
    IF kpc = "returned" THEN DOMAIN kimage.px
    ELSE IF kpc = "loop"
         THEN { q \in DOMAIN kimage.px : q[2] < ky \/ (q[2] = ky /\ q[1] < kx) }
         ELSE {}

\* the input of the current call as an RGBA image
KeyIn == ConvertRGBA(karg)

C7_KeyingFrame ==
    kpc \in {"loop", "returned"} =>
        /\ kimage.width = KeyIn.width
        /\ kimage.height = KeyIn.height
        /\ DOMAIN kimage.px = DOMAIN KeyIn.px
        /\ \A q \in DOMAIN kimage.px :
            LET i == KeyIn.px[q]
                o == kimage.px[q]
            IN  /\ DropAlpha(o) = DropAlpha(i)
                /\ o[4] <= i[4]
                /\ ~IsKeyed(i) => o = i
                /\ q \notin Visited => o = i

\* a returned image with a cleared pixel beside an untouched opaque one
C7_Witness ==
    /\ kpc = "returned"
    /\ kpass = 1
    /\ karg.mode = "RGBA"
    /\ \E q1, q2 \in DOMAIN kimage.px :
        /\ karg.px[q1] = <<190, 195, 199, 128>> /\ kimage.px[q1] = <<190, 195, 199, 0>>
        /\ karg.px[q2] = <<200, 0, 0, 255>> /\ kimage.px[q2] = karg.px[q2]

\* C8: re-applying the filter to its own output changes nothing: during and
\* after the second application the image equals the first application's
\* output, pixel for pixel; and the function composed with itself is itself.
C8_KeyingIdempotent ==
    /\ kpass = 2 /\ kpc \in {"loop", "returned"} => kimage = karg
    /\ kpc = "returned" => RemoveCheckeredBackground(kimage) = kimage

\* the second application has returned on an image with a pixel the first
\* application cleared and an opaque pixel inside the gray band's red range
C8_Witness ==
    /\ kpass = 2
    /\ kpc = "returned"
    /\ \E q1, q2 \in DOMAIN kimage.px :
        /\ kimage.px[q1] = <<200, 200, 200, 0>>
        /\ kimage.px[q2] = <<200, 0, 0, 255>>

\* every sequence visiting each element of S once
RECURSIVE Orders(_)
Orders(S) ==
    IF S = {} THEN { <<>> }
    ELSE UNION { { <<q>> \o o : o \in Orders(S \ {q}) } : q \in S }

\* C9: the output at a position depends on the input at that position only:
\* the loop body applied in any order of the positions gives the image the
\* row-by-row loop returned, and replacing one input pixel changes the
\* output at no other position.
C9_PerPixelOrderFree ==
    kpc = "returned" /\ kpass = 1 =>
        /\ \A o \in Orders(DOMAIN KeyIn.px) : KeyInOrder(KeyIn.px, o) = kimage.px
        /\ \A q \in DOMAIN KeyIn.px : \A v \in Palette :
            LET alt == RemoveCheckeredBackground([KeyIn EXCEPT !.px[q] = v])
            IN  \A t \in DOMAIN KeyIn.px \ {q} : alt.px[t] = kimage.px[t]

\* a returned image of two rows and two columns with cleared and kept pixels
C9_Witness ==
    /\ kpc = "returned"
    /\ kpass = 1
    /\ kimage.width = 2
    /\ kimage.height = 2
    /\ kimage.px[<<0, 0>>] = <<10, 20, 30, 0>>
    /\ kimage.px[<<1, 0>>] = <<200, 0, 0, 255>>
    /\ kimage.px[<<0, 1>>] = <<200, 200, 200, 0>>
    /\ kimage.px[<<1, 1>>] = <<200, 0, 0, 255>>


\* the six orders of the colour channels of a pixel, its alpha kept
ChannelOrders(p) ==
    { <<p[c[1]], p[c[2]], p[c[3]], p[4]>> :
        c \in { c \in (1 .. 3) \X (1 .. 3) \X (1 .. 3) : {c[1], c[2], c[3]} = 1 .. 3 } }

\* the function makes the one pixel p transparent
MadeTransparent(p) ==
    LET one == [mode |-> "RGBA", width |-> 1, height |-> 1,
                px |-> [q \in Positions(1, 1) |-> p]]
    IN  RemoveCheckeredBackground(one).px[<<0, 0>>][4] = 0

\* C20: the decision treats the three channels alike: a one-pixel image that
\* went through the function with a visible pixel has that pixel made
\* transparent exactly when the function makes transparent every reordering
\* of its r, g and b values.
C20_ChannelsAlike ==
    ( /\ kpc = "returned"
      /\ kpass = 1
      /\ karg.width = 1 /\ karg.height = 1
      /\ KeyIn.px[<<0, 0>>][4] # 0 ) =>
        \A p \in ChannelOrders(KeyIn.px[<<0, 0>>]) :
            MadeTransparent(p) <=> kimage.px[<<0, 0>>][4] = 0
----------------------------------------------------------------------------
(* extract_assets *)

\* sizes of the composite: a small one, and the 1024x559 of the module docstring
SourceSizes == { <<3, 2>>, <<1024, 559>> }

\* one axis of a region: starts and lengths around both borders of a side of
\* length L
AxisIntervals(L) == {-2, -1, 0, 1, L - 1, L, L + 1} \X {0, 1, 2, L, L + 3}
\* inside, spilling over the far border, beyond it
BasicIntervals(L) == { <<0, L>>, <<1, L>>, <<L + 1, 1>> }

\* the descriptors of the end-to-end scenarios
ScenarioRegions == { <<0, 12, 295, 115>>, <<1000, 12, 295, 115>>, <<1030, 12, 10, 10>> }

\* the (x, y, width, height) regions an ASSETS entry is drawn from
Regions(size) ==
    { <<i[1], j[1], i[2], j[2]>> : i \in AxisIntervals(size[1]), j \in BasicIntervals(size[2]) }
        \cup { <<i[1], j[1], i[2], j[2]>> : i \in BasicIntervals(size[1]), j \in AxisIntervals(size[2]) }
        \cup ScenarioRegions

\* an exception raised by the environment (memory, disk) in one of the three
\* calls of an iteration, or none
Faults == { "none", "crop", "key", "save" }

\* mutant: the far edges are clamped to the last pixel index
ClampBoxLastIndex(region, size) ==
    <<Max(0, region[1]), Max(0, region[2]),
      Min(size[1] - 1, region[1] + region[3]), Min(size[2] - 1, region[2] + region[4])>>

\* mutant: only the far edges are clamped
ClampBoxFarOnly(region, size) ==
    <<region[1], region[2],
      Min(size[1], region[1] + region[3]), Min(size[2], region[2] + region[4])>>

\* lines 230-239: crop_box = (x, y, x + w, y + h), then clamped
ClampBox(region, size) ==
    LET x == region[1]
        y == region[2]
        w == region[3]
        h == region[4]
        crop_box == <<x, y, x + w, y + h>>
    IN  <<Max(0, crop_box[1]), Max(0, crop_box[2]),
          Min(size[1], crop_box[3]), Min(size[2], crop_box[4])>>

\* Image.crop: a box with right < left or lower < upper is what a strict
\* Pillow raises ValueError for
BoxInverted(box) == box[3] < box[1] \/ box[4] < box[2]

\* mutant: the far edges of a box count as part of the image
CroppedSizeInclusive(box) ==
    <<Max(0, box[3] - box[1] + 1), Max(0, box[4] - box[2] + 1)>>

\* Image.crop: the size of the image returned for a box
CroppedSize(box) == <<Max(0, box[3] - box[1]), Max(0, box[4] - box[2])>>

\* the try block of one iteration: crop, key, save; the first exception ends it
Attempt(region, size, fault, strict, emptyFails) ==
    LET box == ClampBox(region, size)
        cropError == IF strict /\ BoxInverted(box) THEN "ValueError"
                     ELSE IF fault = "crop" THEN "EnvError" ELSE "none"
        cropped == CroppedSize(box)
        saveError == IF emptyFails /\ (cropped[1] = 0 \/ cropped[2] = 0) THEN "SystemError"
                     ELSE IF fault = "save" THEN "EnvError" ELSE "none"
        base == [region |-> region, crop_box |-> box, cropped |-> NoRun,
                 stage |-> "crop", error |-> cropError, status |-> "ERROR"]
    IN  IF cropError # "none" THEN base
        ELSE IF fault = "key"
             THEN [base EXCEPT !.cropped = cropped, !.stage = "key", !.error = "EnvError"]
        ELSE IF saveError # "none"
             THEN [base EXCEPT !.cropped = cropped, !.stage = "save", !.error = saveError]
        ELSE [base EXCEPT !.cropped = cropped, !.stage = "saved", !.error = "none",
                          !.status = "OK"]

\* mutant: the handler gives up on the first failure
AfterFailureAbort == "returned"

\* lines 256-257: the handler prints and the iteration ends like any other
AfterFailure == "iterated"

\* mutant: the counter is bumped for every descriptor attempted
CountAfterAlways(count, status) == count + 1

\* line 254, reached only when nothing raised
CountAfter(count, status) == IF status = "OK" THEN count + 1 ELSE count

Init ==
    /\ epc = "load"
    /\ srcLoadable \in BOOLEAN
    /\ srcSize \in SourceSizes
    /\ strictCrop \in BOOLEAN
    /\ emptySaveFails \in BOOLEAN
    /\ nAssets \in 0 .. MaxAssets
    /\ elog = <<>>
    /\ extracted_count = 0
    /\ files = {}
    /\ cur = NoRun
    /\ eret = "none"
    /\ summary = NoRun
    /\ KeyIdle
    /\ SplitIdle
    /\ RestIdle

\* lines 209-216: the source opens and converts
LoadOk ==
    /\ epc = "load"
    /\ srcLoadable
    /\ extracted_count' = 0
    /\ epc' = "loop"
    /\ UNCHANGED <<srcLoadable, srcSize, strictCrop, emptySaveFails, nAssets, elog,
                   files, cur, eret, summary, outsideExtract>>

\* lines 218-220: it does not; `return False`
LoadFail ==
    /\ epc = "load"
    /\ ~srcLoadable
    /\ eret' = FALSE
    /\ epc' = "returned"
    /\ UNCHANGED <<srcLoadable, srcSize, strictCrop, emptySaveFails, nAssets, elog,
                   extracted_count, files, cur, summary, outsideExtract>>

\* lines 224-226: the for statement takes the next descriptor of the table
ExtractFetch ==
    /\ epc = "loop"
    /\ Len(elog) < nAssets
    /\ \E region \in Regions(srcSize) :
        cur' = [idx |-> Len(elog) + 1, region |-> region]
    /\ epc' = "try"
    /\ UNCHANGED <<srcLoadable, srcSize, strictCrop, emptySaveFails, nAssets, elog,
                   extracted_count, files, eret, summary, outsideExtract>>

\* lines 228-257: the try statement of the iteration, with its handler
ExtractTry ==
    /\ epc = "try"
    /\ \E fault \in Faults :
        LET a == Attempt(cur.region, srcSize, fault, strictCrop, emptySaveFails)
        IN  /\ cur' = a @@ [idx |-> cur.idx]
            /\ elog' = Append(elog, a.status)
            /\ extracted_count' = CountAfter(extracted_count, a.status)
            /\ files' = IF a.status = "OK" THEN files \cup {cur.idx} ELSE files
            /\ epc' = IF a.status = "OK" THEN "iterated" ELSE AfterFailure
    /\ UNCHANGED <<srcLoadable, srcSize, strictCrop, emptySaveFails, nAssets, eret,
                   summary, outsideExtract>>

\* the iteration is over: its locals are dead, the loop is at its head again
ExtractIterEnd ==
    /\ epc = "iterated"
    /\ cur' = NoRun
    /\ epc' = "loop"
    /\ UNCHANGED <<srcLoadable, srcSize, strictCrop, emptySaveFails, nAssets, elog,
                   extracted_count, files, eret, summary, outsideExtract>>

\* lines 259-260: the table is exhausted; print the count, `return True`
ExtractReturn ==
    /\ epc = "loop"
    /\ Len(elog) = nAssets
    /\ summary' = <<extracted_count, nAssets>>
    /\ eret' = TRUE
    /\ epc' = "returned"
    /\ UNCHANGED <<srcLoadable, srcSize, strictCrop, emptySaveFails, nAssets, elog,
                   extracted_count, files, cur, outsideExtract>>

Next == LoadOk \/ LoadFail \/ ExtractFetch \/ ExtractTry \/ ExtractIterEnd \/ ExtractReturn

Spec == Init /\ [][Next]_vars

----------------------------------------------------------------------------
(* split_fighter_spritesheet *)

\* the sizes of the sheet that is opened: every small size, and the sizes of
\* the fighter regions of ASSETS and of the slicing scenarios
SheetSizes ==
    ((1 .. MaxSheetW) \X (1 .. MaxSheetH))
        \cup { <<295, 115>>, <<296, 114>>, <<298, 114>> }

\* mutant: the slicer's table with walk and jump the other way round
AnimationNamesSwapped ==
    <<"idle", "jump", "walk", "attack1", "attack2", "special", "hit", "ko">>

\* lines 280-289: list(animations.keys()), in insertion order
AnimationNames == <<"idle", "walk", "jump", "attack1", "attack2", "special", "hit", "ko">>

\* line 292
frames_per_row == 4
\* `range(2)` and `sheet_height // 2`
frame_rows == 2

\* mutant: the frame size rounded up
ActualFrameSizeCeil(size) ==
    <<(size[1] + frames_per_row - 1) \div frames_per_row,
      (size[2] + frame_rows - 1) \div frame_rows>>

\* lines 293-294
ActualFrameSize(size) == <<size[1] \div frames_per_row, size[2] \div frame_rows>>

\* mutant: rows and columns exchanged
\* mutant: a one-pixel gutter between the frames
FrameOriginGutter(row, col, fsize) ==
    <<col * (fsize[1] + 1), row * (fsize[2] + 1)>>

FrameOriginTransposed(row, col, fsize) == <<row * fsize[1], col * fsize[2]>>

\* lines 301-302: x = col * actual_frame_width, y = row * actual_frame_height
FrameOrigin(row, col, fsize) == <<col * fsize[1], row * fsize[2]>>

\* line 304: the box given to sheet.crop
FrameBox(row, col, fsize) ==
    LET o == FrameOrigin(row, col, fsize)
    IN  <<o[1], o[2], o[1] + fsize[1], o[2] + fsize[2]>>

\* an integer >= 0 formatted by an f-string: its decimal digits, the most
\* significant first, no padding
RECURSIVE Decimal(_)
Decimal(n) == IF n < 10 THEN <<n>> ELSE Append(Decimal(n \div 10), n % 10)

\* mutant: past its end the table is read again from the start
AnimNameWrapped(idx) == AnimationNames[(idx % Len(AnimationNames)) + 1]

\* line 307: the table's name, or the fallback f"frame_{frame_idx}" beyond the
\* table (the text "frame_" followed by the digits)
AnimName(idx) ==
    IF idx < Len(AnimationNames) THEN AnimationNames[idx + 1]
    ELSE <<"frame_">> \o Decimal(idx)

InitSplit ==
    /\ spc = "check"
    /\ sheetExists \in BOOLEAN
    /\ sheetSize \in SheetSizes
    /\ frameSize = <<0, 0>>
    /\ frame_idx = 0
    /\ srow = 0
    /\ scol = 0
    /\ frames = {}
    /\ strictCrop = FALSE
    /\ emptySaveFails \in BOOLEAN
    /\ ExtractIdle
    /\ KeyIdle
    /\ RestIdle

\* lines 268-270: no spritesheet file; print and return
SplitMissing ==
    /\ spc = "check"
    /\ ~sheetExists
    /\ spc' = "skipped"
    /\ UNCHANGED <<sheetExists, sheetSize, frameSize, frame_idx, srow, scol, frames,
                   outsideSplit>>

\* lines 272-298: the sheet opens; frame size computed, counters at zero
SplitOpen ==
    /\ spc = "check"
    /\ sheetExists
    /\ frameSize' = ActualFrameSize(sheetSize)
    /\ frame_idx' = 0
    /\ srow' = 0
    /\ scol' = 0
    /\ spc' = "loop"
    /\ UNCHANGED <<sheetExists, sheetSize, frames, outsideSplit>>

\* lines 273-275 raise (the file is no image): the handler of lines 315-316
SplitOpenFail ==
    /\ spc = "check"
    /\ sheetExists
    /\ spc' = "failed"
    /\ UNCHANGED <<sheetExists, sheetSize, frameSize, frame_idx, srow, scol, frames,
                   outsideSplit>>

\* lines 299-311: one iteration of the inner loop: crop, name, save, count
SplitFrame ==
    /\ spc = "loop"
    /\ srow < frame_rows
    /\ ~(emptySaveFails /\ (frameSize[1] = 0 \/ frameSize[2] = 0))
    /\ LET name == AnimName(frame_idx)
           f == [name |-> name, idx |-> frame_idx, row |-> srow, col |-> scol,
                 box |-> FrameBox(srow, scol, frameSize)]
       IN  frames' = { g \in frames : g.name # name } \cup {f}
    /\ frame_idx' = frame_idx + 1
    /\ IF scol + 1 < frames_per_row
       THEN scol' = scol + 1 /\ srow' = srow
       ELSE scol' = 0 /\ srow' = srow + 1
    /\ UNCHANGED <<spc, sheetExists, sheetSize, frameSize, outsideSplit>>

\* line 310 raises: the handler of lines 315-316 ends the function
SplitFrameFail ==
    /\ spc = "loop"
    /\ srow < frame_rows
    /\ spc' = "failed"
    /\ UNCHANGED <<sheetExists, sheetSize, frameSize, frame_idx, srow, scol, frames,
                   outsideSplit>>

\* line 313: both loops are exhausted
SplitDone ==
    /\ spc = "loop"
    /\ srow >= frame_rows
    /\ spc' = "done"
    /\ UNCHANGED <<sheetExists, sheetSize, frameSize, frame_idx, srow, scol, frames,
                   outsideSplit>>

NextSplit ==
    SplitMissing \/ SplitOpen \/ SplitOpenFail \/ SplitFrame \/ SplitFrameFail \/ SplitDone

SpecSplit == InitSplit /\ [][NextSplit]_vars

----------------------------------------------------------------------------
(* The frame name expression of split_fighter_spritesheet (line 307), for   *)
(* every index up to MaxFrameIdx. In the function itself frame_idx stays    *)
(* below 8 (two rows of four), the length of the table.                     *)

InitName ==
    /\ npc = "call"
    /\ nidx \in 0 .. MaxFrameIdx
    /\ nname = NoRun
    /\ KeyIdle
    /\ EnvIdle
    /\ ExtractIdle
    /\ SplitIdle
    /\ MainIdle
    /\ PixIdle
    /\ EffectIdle
    /\ RunIdle
    /\ DeckIdle

\* line 307
NameFrame ==
    /\ npc = "call"
    /\ nname' = AnimName(nidx)
    /\ npc' = "named"
    /\ UNCHANGED <<nidx, outsideName>>

NextName == NameFrame

SpecName == InitName /\ [][NextName]_vars

----------------------------------------------------------------------------
(* split_effect_spritesheet, one frame per step *)

\* f"{i:02d}": the decimal digits, zero-padded on the left to two places
TwoDigits(n) == IF n < 10 THEN <<0>> \o Decimal(n) ELSE Decimal(n)

\* line 343: f"frame_{i:02d}.png" without the extension
EffectFrameName(i) == <<"frame_">> \o TwoDigits(i)

\* mutant: the sheet is shared out over the frames rounding up
EffectFrameWidthCeil(width, n) == (width + n - 1) \div n

\* line 338: frame_width = sheet_width // expected_frames
EffectFrameWidth(width, n) == width \div n

\* mutant: every frame starts one column after the end of the one before
EffectFrameBoxGap(i, fw, height) == <<i * (fw + 1), 0, i * (fw + 1) + fw, height>>

\* lines 341-342: x = i * frame_width, the box given to sheet.crop
EffectFrameBox(i, fw, height) == <<i * fw, 0, i * fw + fw, height>>

InitEffect ==
    /\ fxpc = "check"
    /\ fxExists \in BOOLEAN
    /\ fxSize \in SheetSizes
    /\ expected_frames \in 0 .. MaxExpectedFrames
    /\ frame_width = 0
    /\ fxi = 0
    /\ fxDir = FALSE
    /\ fxFrames = {}
    /\ strictCrop = FALSE
    /\ emptySaveFails \in BOOLEAN
    /\ KeyIdle
    /\ ExtractIdle
    /\ SplitIdle
    /\ NameIdle
    /\ MainIdle
    /\ PixIdle
    /\ RunIdle
    /\ DeckIdle

\* lines 324-326: no spritesheet file; print and return
EffectMissing ==
    /\ fxpc = "check"
    /\ ~fxExists
    /\ fxpc' = "missing"
    /\ UNCHANGED <<fxExists, fxSize, expected_frames, frame_width, fxi, fxDir, fxFrames,
                   outsideEffect>>

\* line 328: os.makedirs(output_dir, exist_ok=True)
EffectMakeDir ==
    /\ fxpc = "check"
    /\ fxExists
    /\ fxDir' = TRUE
    /\ fxpc' = "open"
    /\ UNCHANGED <<fxExists, fxSize, expected_frames, frame_width, fxi, fxFrames,
                   outsideEffect>>

\* lines 331-338: the sheet opens and the frame width is computed
EffectOpen ==
    /\ fxpc = "open"
    /\ expected_frames > 0
    /\ frame_width' = EffectFrameWidth(fxSize[1], expected_frames)
    /\ fxi' = 0
    /\ fxpc' = "loop"
    /\ UNCHANGED <<fxExists, fxSize, expected_frames, fxDir, fxFrames, outsideEffect>>

\* lines 331-338 raise (the file is no image, or expected_frames is 0 and the
\* division raises ZeroDivisionError): the handler of lines 348-349
EffectOpenFail ==
    /\ fxpc = "open"
    /\ fxpc' = "failed"
    /\ UNCHANGED <<fxExists, fxSize, expected_frames, frame_width, fxi, fxDir, fxFrames,
                   outsideEffect>>

\* lines 340-344: one iteration: crop the strip, save it as frame_NN
EffectFrame ==
    /\ fxpc = "loop"
    /\ fxi < expected_frames
    /\ ~(emptySaveFails /\ (frame_width = 0 \/ fxSize[2] = 0))
    /\ LET name == EffectFrameName(fxi)
           f == [name |-> name, idx |-> fxi,
                 box |-> EffectFrameBox(fxi, frame_width, fxSize[2])]
       IN  fxFrames' = { g \in fxFrames : g.name # name } \cup {f}
    /\ fxi' = fxi + 1
    /\ UNCHANGED <<fxpc, fxExists, fxSize, expected_frames, frame_width, fxDir,
                   outsideEffect>>

\* line 344 (or 342) raises: the handler of lines 348-349 ends the function
EffectFrameFail ==
    /\ fxpc = "loop"
    /\ fxi < expected_frames
    /\ fxpc' = "failed"
    /\ UNCHANGED <<fxExists, fxSize, expected_frames, frame_width, fxi, fxDir, fxFrames,
                   outsideEffect>>

\* line 346: the loop is exhausted
EffectDone ==
    /\ fxpc = "loop"
    /\ fxi >= expected_frames
    /\ fxpc' = "done"
    /\ UNCHANGED <<fxExists, fxSize, expected_frames, frame_width, fxi, fxDir, fxFrames,
                   outsideEffect>>

NextEffect ==
    \/ EffectMissing
    \/ EffectMakeDir
    \/ EffectOpen
    \/ EffectOpenFail
    \/ EffectFrame
    \/ EffectFrameFail
    \/ EffectDone

SpecEffect == InitEffect /\ [][NextEffect]_vars

----------------------------------------------------------------------------
(* main: the whole run. extract_assets is seen from main as its caller sees *)
(* it: the load succeeds or not, each descriptor ends OK or ERROR. The two  *)
(* slicing functions are one step per spritesheet.                          *)

\* lines 155-165
OutputDirs ==
    { "sprites/fighters/alphabot", "sprites/fighters/neuralknight",
      "sprites/fighters/quantumfist", "sprites/fighters/ironlogic",
      "sprites/effects", "backgrounds/cyber-colosseum",
      "backgrounds/factory-floor", "backgrounds/digital-void", "ui" }

\* line 438
Fighters == <<"alphabot", "neuralknight", "quantumfist", "ironlogic">>

\* mutant: main slices the block effect into four frames like the others
EffectsBlockFour ==
    << <<"hit-spark", 4>>, <<"heavy-hit", 4>>, <<"block", 4>>,
       <<"dust", 4>>, <<"ko-explosion", 4>>, <<"energy-charge", 4>> >>

\* lines 443-450: name and expected_frames
Effects == << <<"hit-spark", 4>>, <<"heavy-hit", 4>>, <<"block", 3>>,
              <<"dust", 4>>, <<"ko-explosion", 4>>, <<"energy-charge", 4>> >>

\* frames cut from a fighter sheet: range(2) x range(4)
FighterFrames == frame_rows * frames_per_row

\* one entry of the record of the run
Event(step, item, idx) == [step |-> step, item |-> item, idx |-> idx]

\* mutant: the source check does not stop the run
AfterSourceCheckAnyway(exists) == "dirs"

\* lines 422-424: `if not os.path.exists(SOURCE_IMAGE): ... return`
AfterSourceCheck(exists) == IF exists THEN "dirs" ELSE "ended"

\* mutant: the manifest is written before the effects are sliced
AfterPhaseManifestEarly(phase) ==
    CASE phase = "dirs" -> "load"
      [] phase = "assets" -> "fighters"
      [] phase = "fighters" -> "manifest"
      [] phase = "manifest" -> "effects"
      [] phase = "effects" -> "summary"
      [] phase = "summary" -> "ended"

\* lines 426-458: the steps of main in the order of its statements
AfterPhase(phase) ==
    CASE phase = "dirs" -> "load"
      [] phase = "assets" -> "fighters"
      [] phase = "fighters" -> "effects"
      [] phase = "effects" -> "manifest"
      [] phase = "manifest" -> "summary"
      [] phase = "summary" -> "ended"

\* mutant: extract_assets reports success only if every descriptor was saved
ExtractResultAllSaved(opened, count, total) == opened /\ count = total

\* lines 220 and 260: extract_assets returns False when the load raised and
\* True after the loop, whatever extracted_count is
ExtractResult(opened, count, total) == opened

\* mutant: main goes on whatever extract_assets returned
AfterExtractIgnored(result) == AfterPhase("assets")

\* lines 432-434: `if not extract_assets(SOURCE_IMAGE): ... return`
AfterExtract(result) == IF result THEN AfterPhase("assets") ELSE "ended"

\* mutant: a failed item is tried again
AfterAttemptRetry(i, status) == IF status = "ERROR" THEN i ELSE i + 1

\* the `for` loops of lines 224, 438 and 451: on to the next item whatever
\* became of this one
AfterAttempt(i, status) == i + 1

InitMain ==
    /\ mpc = "check"
    /\ srcExists \in BOOLEAN
    /\ srcLoads \in BOOLEAN
    /\ tableLen \in 0 .. MaxAssets
    /\ mdirs = {}
    /\ mlog = <<>>
    /\ mi = 0
    /\ mcount = 0
    /\ last = NoSheet
    /\ firstSkipped = "none"
    /\ firstFailed = "none"
    /\ manifest = {}
    /\ KeyIdle
    /\ EnvIdle
    /\ ExtractIdle
    /\ SplitIdle
    /\ NameIdle
    /\ PixIdle
    /\ EffectIdle
    /\ RunIdle
    /\ DeckIdle

\* lines 422-424
MainCheckSource ==
    /\ mpc = "check"
    /\ mpc' = AfterSourceCheck(srcExists)
    /\ mlog' = IF srcExists THEN mlog ELSE Append(mlog, Event("source not found", "", 0))
    /\ UNCHANGED <<srcExists, srcLoads, tableLen, mdirs, mi, mcount, last,
                   firstSkipped, firstFailed, manifest, outsideMain>>

\* line 428 and lines 153-170: create_directories
MainCreateDirectories ==
    /\ mpc = "dirs"
    /\ mdirs' = mdirs \cup OutputDirs
    /\ mlog' = Append(mlog, Event("dirs", "", 0))
    /\ mpc' = AfterPhase("dirs")
    /\ UNCHANGED <<srcExists, srcLoads, tableLen, mi, mcount, last,
                   firstSkipped, firstFailed, manifest, outsideMain>>

\* lines 432 and 209-222: extract_assets loads the source
MainLoadOk ==
    /\ mpc = "load"
    /\ srcLoads
    /\ mi' = 0
    /\ mcount' = 0
    /\ mpc' = "assets"
    /\ UNCHANGED <<srcExists, srcLoads, tableLen, mdirs, mlog, last,
                   firstSkipped, firstFailed, manifest, outsideMain>>

\* lines 218-220 and 432-434: the load raises, extract_assets returns False,
\* main prints "Asset extraction failed!" and returns
MainLoadFail ==
    /\ mpc = "load"
    /\ ~srcLoads
    /\ mlog' = Append(mlog, Event("extraction failed", "", 0))
    /\ mpc' = AfterExtract(ExtractResult(FALSE, 0, tableLen))
    /\ UNCHANGED <<srcExists, srcLoads, tableLen, mdirs, mi, mcount, last,
                   firstSkipped, firstFailed, manifest, outsideMain>>

\* lines 224-257 as main sees them: the descriptor at position mi ends OK
\* (counted) or ERROR (logged), and the loop goes on
MainExtractOne ==
    /\ mpc = "assets"
    /\ mi < tableLen
    /\ \E status \in {"OK", "ERROR"} :
        /\ mcount' = IF status = "OK" THEN mcount + 1 ELSE mcount
        /\ firstFailed' = IF status = "ERROR" /\ firstFailed = "none"
                          THEN "asset" ELSE firstFailed
        /\ mi' = AfterAttempt(mi, status)
    /\ mlog' = Append(mlog, Event("asset", "", mi))
    /\ UNCHANGED <<mpc, srcExists, srcLoads, tableLen, mdirs, last,
                   firstSkipped, manifest, outsideMain>>

\* lines 259-260 and 432: the table is exhausted, extract_assets returns True
MainExtractReturn ==
    /\ mpc = "assets"
    /\ mi >= tableLen
    /\ mi' = 0
    /\ mpc' = AfterExtract(ExtractResult(TRUE, mcount, tableLen))
    /\ UNCHANGED <<srcExists, srcLoads, tableLen, mdirs, mlog, mcount, last,
                   firstSkipped, firstFailed, manifest, outsideMain>>

Sheet(kind, item, outcome, written, madeDir) ==
    [kind |-> kind, item |-> item, outcome |-> outcome,
     written |-> written, madeDir |-> madeDir]

\* mutant: the frame directory of an effect is made before the sheet is
\* looked for
SheetOutcomesDirFirst(kind, item, n, exists) ==
    IF ~exists
    THEN { Sheet(kind, item, "skipped", 0, kind = "effect") }
    ELSE { Sheet(kind, item, "ok", n, kind = "effect") }
           \cup { Sheet(kind, item, "error", k, kind = "effect") : k \in 0 .. n - 1 }

\* what a slicing function can do with one sheet of n frames.
\* lines 268-270 and 324-326: a missing sheet is reported and left;
\* line 328: an effect's frame directory is made once the sheet is found;
\* lines 272-316 and 330-349: the frames are written in order, and an
\* exception (open, crop or save) ends the function with k < n frames
\* written and an ERROR line
SheetOutcomes(kind, item, n, exists) ==
    IF ~exists
    THEN { Sheet(kind, item, "skipped", 0, FALSE) }
    ELSE { Sheet(kind, item, "ok", n, kind = "effect") }
           \cup { Sheet(kind, item, "error", k, kind = "effect") : k \in 0 .. n - 1 }

\* the bookkeeping shared by the two slicing loops
Sliced(rec) ==
    /\ last' = rec
    /\ firstSkipped' = IF rec.outcome = "skipped" /\ firstSkipped = "none"
                       THEN rec.item ELSE firstSkipped
    /\ firstFailed' = IF rec.outcome = "error" /\ firstFailed = "none"
                      THEN rec.item ELSE firstFailed
    /\ mi' = AfterAttempt(mi, IF rec.outcome = "error" THEN "ERROR" ELSE "OK")
    /\ mlog' = Append(mlog, Event(rec.kind, rec.item, mi))

\* lines 438-439: split_fighter_spritesheet(fighter)
MainSplitFighter ==
    /\ mpc = "fighters"
    /\ mi < Len(Fighters)
    /\ \E exists \in BOOLEAN :
        \E rec \in SheetOutcomes("fighter", Fighters[mi + 1], FighterFrames, exists) :
            Sliced(rec)
    /\ UNCHANGED <<mpc, srcExists, srcLoads, tableLen, mdirs, mcount, manifest,
                   outsideMain>>

MainFightersDone ==
    /\ mpc = "fighters"
    /\ mi >= Len(Fighters)
    /\ mi' = 0
    /\ mpc' = AfterPhase("fighters")
    /\ UNCHANGED <<srcExists, srcLoads, tableLen, mdirs, mlog, mcount, last,
                   firstSkipped, firstFailed, manifest, outsideMain>>

\* lines 451-452: split_effect_spritesheet(effect_name, num_frames)
MainSplitEffect ==
    /\ mpc = "effects"
    /\ mi < Len(Effects)
    /\ \E exists \in BOOLEAN :
        \E rec \in SheetOutcomes("effect", Effects[mi + 1][1], Effects[mi + 1][2], exists) :
            Sliced(rec)
    /\ UNCHANGED <<mpc, srcExists, srcLoads, tableLen, mdirs, mcount, manifest,
                   outsideMain>>

MainEffectsDone ==
    /\ mpc = "effects"
    /\ mi >= Len(Effects)
    /\ mi' = 0
    /\ mpc' = AfterPhase("effects")
    /\ UNCHANGED <<srcExists, srcLoads, tableLen, mdirs, mlog, mcount, last,
                   firstSkipped, firstFailed, manifest, outsideMain>>

(* create_animation_json. A JSON value that is a list and one that is a    *)
(* number are told apart by their kind.                                     *)

JsonList(items) == [kind |-> "list", items |-> items]
JsonNumber(n) == [kind |-> "number", value |-> n]

\* mutant: clips without a playback rate
ClipStill(shown, rate, repeat) ==
    [frames |-> shown, frameRate |-> 0, repeat |-> repeat]

\* one `{"frames": ..., "frameRate": ..., "repeat": ...}` entry
Clip(shown, rate, repeat) ==
    [frames |-> shown, frameRate |-> rate, repeat |-> repeat]

\* lines 358-367 (and 368-397, the same eight clips for each fighter)
FighterClips ==
    ("idle" :> Clip(JsonList(<<0>>), 8, -1))
        @@ ("walk" :> Clip(JsonList(<<1>>), 10, -1))
        @@ ("jump" :> Clip(JsonList(<<2>>), 8, 0))
        @@ ("attack1" :> Clip(JsonList(<<3>>), 12, 0))
        @@ ("attack2" :> Clip(JsonList(<<4>>), 10, 0))
        @@ ("special" :> Clip(JsonList(<<5>>), 8, 0))
        @@ ("hit" :> Clip(JsonList(<<6>>), 8, 0))
        @@ ("ko" :> Clip(JsonList(<<7>>), 6, 0))

\* lines 399-406
EffectClips ==
    ("hit-spark" :> Clip(JsonNumber(4), 15, 0))
        @@ ("heavy-hit" :> Clip(JsonNumber(4), 12, 0))
        @@ ("block" :> Clip(JsonNumber(3), 12, 0))
        @@ ("dust" :> Clip(JsonNumber(4), 15, 0))
        @@ ("ko-explosion" :> Clip(JsonNumber(4), 10, 0))
        @@ ("energy-charge" :> Clip(JsonNumber(4), 12, -1))

\* lines 356-407: the `animations` literal
Animations ==
    [fighters |-> [f \in {"alphabot", "neuralknight", "quantumfist", "ironlogic"}
                     |-> FighterClips],
     effects |-> EffectClips]

\* line 456 and lines 409-411: animations.json is written
MainCreateAnimationJson ==
    /\ mpc = "manifest"
    /\ manifest' = manifest \cup { [path |-> "animations.json", content |-> Animations] }
    /\ mlog' = Append(mlog, Event("manifest", "", 0))
    /\ mpc' = AfterPhase("manifest")
    /\ UNCHANGED <<srcExists, srcLoads, tableLen, mdirs, mi, mcount, last,
                   firstSkipped, firstFailed, outsideMain>>

\* lines 458-470: the closing lines are printed and main returns
MainSummary ==
    /\ mpc = "summary"
    /\ mpc' = AfterPhase("summary")
    /\ UNCHANGED <<srcExists, srcLoads, tableLen, mdirs, mlog, mi, mcount, last,
                   firstSkipped, firstFailed, manifest, outsideMain>>

NextMain ==
    \/ MainCheckSource
    \/ MainCreateDirectories
    \/ MainLoadOk
    \/ MainLoadFail
    \/ MainExtractOne
    \/ MainExtractReturn
    \/ MainSplitFighter
    \/ MainFightersDone
    \/ MainSplitEffect
    \/ MainEffectsDone
    \/ MainCreateAnimationJson
    \/ MainSummary

SpecMain == InitMain /\ [][NextMain]_vars

----------------------------------------------------------------------------
(* extract_assets at the level of pixels. Image objects live in a heap; a   *)
(* local variable refers to an object and to the part of its buffer that    *)
(* it shows. The table has MaxAssets descriptors.                           *)

\* the composite: opaque gray (keyed) and opaque red (kept) pixels
PixPalette == { <<200, 200, 200, 255>>, <<200, 0, 0, 255>> }

PixShapes == { s \in (1 .. MaxPixels) \X (1 .. MaxPixels) : s[1] * s[2] <= MaxPixels }

PixSources ==
    ImagesOf("RGBA", PixPalette, PixShapes)
        \cup ImagesOf("RGB", { DropAlpha(p) : p \in PixPalette }, PixShapes)

\* regions inside the composite, across its edges and overlapping each
\* other: any origin from one pixel before the composite, one pixel or the
\* whole side long
PixRegions(size) ==
    (-1 .. size[1] - 1) \X (-1 .. size[2] - 1) \X {1, size[1]} \X {1, size[2]}

Ref(obj, ox, oy, w, h) == [obj |-> obj, ox |-> ox, oy |-> oy, width |-> w, height |-> h]

\* the image seen through a reference
Content(objects, ref) ==
    [mode |-> objects[ref.obj].mode, width |-> ref.width, height |-> ref.height,
     px |-> [q \in Positions(ref.width, ref.height) |->
               objects[ref.obj].px[<<ref.ox + q[1], ref.oy + q[2]>>]]]

\* mutant: crop gives a window onto the buffer of the image it is taken from
CropView(objects, ref, box, new) ==
    [objects |-> objects,
     ref |-> Ref(ref.obj, ref.ox + box[1], ref.oy + box[2],
                 CroppedSize(box)[1], CroppedSize(box)[2])]

\* line 242, Image.crop: a new image object holding a copy of the pixels of
\* the box
Crop(objects, ref, box, new) ==
    LET size == CroppedSize(box)
        copy == Content(objects, Ref(ref.obj, ref.ox + box[1], ref.oy + box[2],
                                     size[1], size[2]))
    IN  [objects |-> [o \in DOMAIN objects \cup {new} |->
                        IF o = new THEN copy ELSE objects[o]],
         ref |-> Ref(new, 0, 0, size[1], size[2])]

\* mutant: only the first row of the image is keyed
KeyInPlaceTopRow(objects, ref) ==
    LET order == RowMajor(ref.width, Min(1, ref.height))
        there == [i \in DOMAIN order |-> <<ref.ox + order[i][1], ref.oy + order[i][2]>>]
    IN  [objects EXCEPT ![ref.obj].px = KeyInOrder(@, there)]

\* line 245 on an RGBA image: remove_checkered_background writes, row by row,
\* into the buffer of the object it was given and returns that object
KeyInPlace(objects, ref) ==
    LET order == RowMajor(ref.width, ref.height)
        there == [i \in DOMAIN order |-> <<ref.ox + order[i][1], ref.oy + order[i][2]>>]
    IN  [objects EXCEPT ![ref.obj].px = KeyInOrder(@, there)]

\* lines 209-216: the composite is opened and, when needed, converted
InitPix ==
    /\ ppc = "loop"
    /\ \E file \in PixSources :
        /\ pheap = (1 :> ConvertRGBA(file))
        /\ ploaded = ConvertRGBA(file)
        /\ psource = Ref(1, 0, 0, file.width, file.height)
    /\ pcropped = NoImage
    /\ pregion = <<0, 0, 0, 0>>
    /\ pkeyed = {}
    /\ pdone = 0
    /\ pwritten = {}
    /\ strictCrop = FALSE
    /\ emptySaveFails \in BOOLEAN
    /\ KeyIdle
    /\ ExtractIdle
    /\ SplitIdle
    /\ NameIdle
    /\ MainIdle
    /\ EffectIdle
    /\ RunIdle
    /\ DeckIdle

\* lines 224-242: the next descriptor's region is clamped and cropped
PixCrop ==
    /\ ppc = "loop"
    /\ pdone < MaxAssets
    /\ \E region \in PixRegions(<<psource.width, psource.height>>) :
        LET box == ClampBox(region, <<psource.width, psource.height>>)
            made == Crop(pheap, psource, box, 2)
        IN  /\ ~BoxInverted(box)
            /\ pheap' = made.objects
            /\ pcropped' = made.ref
            /\ pregion' = region
    /\ pwritten' = {}
    /\ ppc' = "cropped"
    /\ UNCHANGED <<ploaded, psource, pkeyed, pdone, outsidePix>>

\* line 245: cropped = remove_checkered_background(cropped)
PixKey ==
    /\ ppc = "cropped"
    /\ pheap' = KeyInPlace(pheap, pcropped)
    /\ pkeyed' = LET box == ClampBox(pregion, <<psource.width, psource.height>>)
                     was == Content(pheap, pcropped).px
                     now == Content(KeyInPlace(pheap, pcropped), pcropped).px
                 IN  { <<box[1] + q[1], box[2] + q[2]>> :
                         q \in { q \in DOMAIN now : now[q][4] = 0 /\ was[q][4] # 0 } }
    /\ ppc' = "keyed"
    /\ UNCHANGED <<ploaded, psource, pcropped, pregion, pdone, pwritten, outsidePix>>

\* line 251: the keyed image is saved (the file holds what `cropped` shows),
\* and the loop goes on
PixSave ==
    /\ ppc = "keyed"
    /\ ~(emptySaveFails /\ (pcropped.width = 0 \/ pcropped.height = 0))
    /\ pwritten' = { Content(pheap, pcropped) }
    /\ pdone' = pdone + 1
    /\ ppc' = "loop"
    /\ UNCHANGED <<pheap, ploaded, psource, pcropped, pregion, pkeyed, outsidePix>>

\* lines 256-257: saving an image without pixels raised; nothing is written
PixSaveFail ==
    /\ ppc = "keyed"
    /\ emptySaveFails /\ (pcropped.width = 0 \/ pcropped.height = 0)
    /\ pdone' = pdone + 1
    /\ ppc' = "loop"
    /\ UNCHANGED <<pheap, ploaded, psource, pcropped, pregion, pkeyed, pwritten, outsidePix>>

\* lines 259-260
PixReturn ==
    /\ ppc = "loop"
    /\ pdone >= MaxAssets
    /\ ppc' = "returned"
    /\ UNCHANGED <<pheap, ploaded, psource, pcropped, pregion, pkeyed, pdone,
                   pwritten, outsidePix>>

NextPix == PixCrop \/ PixKey \/ PixSave \/ PixSaveFail \/ PixReturn

SpecPix == InitPix /\ [][NextPix]_vars

----------------------------------------------------------------------------
(* One run of main over the literal tables, file by file. A path under      *)
(* OUTPUT_BASE is its directory (the components), the stem of the file name *)
(* (its parts) and the extension.                                           *)

Path(dir, stem, ext) == [dir |-> dir, stem |-> stem, ext |-> ext]

\* os.path.dirname of a path
ParentDir(path) == path.dir

Asset(dir, stem, ext, region) == [path |-> Path(dir, <<stem>>, ext), region |-> region]

\* lines 19-150: the ASSETS table, in insertion order
ASSETS ==
    << Asset(<<"sprites", "fighters", "alphabot">>, "spritesheet", "png", <<0, 12, 295, 115>>),
       Asset(<<"sprites", "fighters", "neuralknight">>, "spritesheet", "png", <<0, 140, 295, 115>>),
       Asset(<<"sprites", "fighters", "quantumfist">>, "spritesheet", "png", <<0, 268, 295, 115>>),
       Asset(<<"sprites", "fighters", "ironlogic">>, "spritesheet", "png", <<0, 396, 295, 115>>),
       Asset(<<"backgrounds", "cyber-colosseum">>, "layer1-far", "png", <<305, 12, 175, 45>>),
       Asset(<<"backgrounds", "cyber-colosseum">>, "layer2-mid", "png", <<305, 62, 175, 45>>),
       Asset(<<"backgrounds", "cyber-colosseum">>, "layer3-near", "png", <<305, 112, 175, 60>>),
       Asset(<<"backgrounds", "factory-floor">>, "layer1-far", "png", <<490, 12, 175, 45>>),
       Asset(<<"backgrounds", "factory-floor">>, "layer2-mid", "png", <<490, 62, 175, 45>>),
       Asset(<<"backgrounds", "factory-floor">>, "layer3-near", "png", <<490, 112, 175, 60>>),
       Asset(<<"backgrounds", "digital-void">>, "layer1-far", "png", <<675, 12, 175, 45>>),
       Asset(<<"backgrounds", "digital-void">>, "layer2-mid", "png", <<675, 62, 175, 45>>),
       Asset(<<"backgrounds", "digital-void">>, "layer3-near", "png", <<675, 112, 175, 60>>),
       Asset(<<"ui">>, "health-bar", "png", <<305, 185, 200, 40>>),
       Asset(<<"ui">>, "combo-counter", "png", <<515, 185, 80, 70>>),
       Asset(<<"ui">>, "round-indicators", "png", <<605, 185, 100, 70>>),
       Asset(<<"ui">>, "announcer-text", "png", <<860, 12, 155, 160>>),
       Asset(<<"ui">>, "timer", "png", <<715, 185, 85, 50>>),
       Asset(<<"ui">>, "betting-frame", "png", <<860, 185, 155, 200>>),
       Asset(<<"sprites", "effects">>, "hit-spark", "png", <<305, 240, 140, 75>>),
       Asset(<<"sprites", "effects">>, "heavy-hit", "png", <<455, 240, 140, 75>>),
       Asset(<<"sprites", "effects">>, "block", "png", <<605, 240, 90, 90>>),
       Asset(<<"sprites", "effects">>, "dust", "png", <<700, 270, 100, 50>>),
       Asset(<<"sprites", "effects">>, "ko-explosion", "png", <<305, 330, 100, 90>>),
       Asset(<<"sprites", "effects">>, "energy-charge", "png", <<415, 330, 100, 90>>),
       Asset(<<"sprites", "fighters", "alphabot">>, "portrait", "png", <<525, 400, 90, 110>>),
       Asset(<<"sprites", "fighters", "neuralknight">>, "portrait", "png", <<625, 400, 90, 110>>),
       Asset(<<"sprites", "fighters", "quantumfist">>, "portrait", "png", <<725, 400, 90, 110>>),
       Asset(<<"sprites", "fighters", "ironlogic">>, "portrait", "png", <<825, 400, 90, 110>>) >>

\* line 17: the size of the composite the table was written for
ObservedSize == <<1024, 559>>

\* the composites of a run: the observed one and smaller ones (every region
\* still starts inside them)
RunSizes == { ObservedSize, <<1000, 559>>, <<1024, 500>> }

\* mutant: create_directories without the ui directory
CreatedDirsNoUi ==
    { <<"sprites", "fighters", "alphabot">>, <<"sprites", "fighters", "neuralknight">>,
      <<"sprites", "fighters", "quantumfist">>, <<"sprites", "fighters", "ironlogic">>,
      <<"sprites", "effects">>, <<"backgrounds", "cyber-colosseum">>,
      <<"backgrounds", "factory-floor">>, <<"backgrounds", "digital-void">> }

\* lines 155-165: the dirs list of create_directories, by components
CreatedDirs ==
    { <<"sprites", "fighters", "alphabot">>, <<"sprites", "fighters", "neuralknight">>,
      <<"sprites", "fighters", "quantumfist">>, <<"sprites", "fighters", "ironlogic">>,
      <<"sprites", "effects">>, <<"backgrounds", "cyber-colosseum">>,
      <<"backgrounds", "factory-floor">>, <<"backgrounds", "digital-void">>,
      <<"ui">> }

\* os.makedirs(path, exist_ok=True): the directory and every one above it
MakeDirs(dir) == { SubSeq(dir, 1, k) : k \in 0 .. Len(dir) }

\* line 265: the sheet split_fighter_spritesheet reads
FighterSheetPath(fighter) == Path(<<"sprites", "fighters", fighter>>, <<"spritesheet">>, "png")

\* mutant: the last frame of a fighter is saved as its portrait
FighterFramePathPortrait(fighter, idx) ==
    Path(<<"sprites", "fighters", fighter>>,
         IF idx = 7 THEN <<"portrait">> ELSE <<AnimName(idx)>>, "png")

\* lines 266 and 309: output_dir / f"{anim_name}.png"
FighterFramePath(fighter, idx) ==
    Path(<<"sprites", "fighters", fighter>>, <<AnimName(idx)>>, "png")

\* line 321: the sheet split_effect_spritesheet reads
EffectSheetPath(effect) == Path(<<"sprites", "effects">>, <<effect>>, "png")

\* line 322: output_dir of split_effect_spritesheet
EffectFrameDir(effect) == <<"sprites", "effects", effect>>

\* line 343: output_dir / f"frame_{i:02d}.png"
EffectFramePath(effect, i) == Path(EffectFrameDir(effect), EffectFrameName(i), "png")

\* line 409: OUTPUT_BASE / "animations.json"
ManifestPath == Path(<<>>, <<"animations">>, "json")

\* frame.save / cropped.save into a directory: it raises when the directory
\* is not there
SaveInto(dirs, path, attempt) ==
    IF attempt.status = "OK" /\ ParentDir(path) \notin dirs
    THEN [attempt EXCEPT !.stage = "save", !.error = "FileNotFoundError",
                         !.status = "ERROR"]
    ELSE attempt

\* the paths a slicing function writes when it saves its first k frames
FighterFramePaths(fighter, k) == [i \in 1 .. k |-> FighterFramePath(fighter, i - 1)]
EffectFramePaths(effect, k) == [i \in 1 .. k |-> EffectFramePath(effect, i - 1)]

\* the files written so far and those written a second time, after the
\* paths of a sequence have been written in order
RECURSIVE WriteAll(_, _)
WriteAll(state, paths) ==
    IF paths = <<>> THEN state
    ELSE WriteAll([files |-> state.files \cup { Head(paths) },
                   again |-> state.again \cup ({ Head(paths) } \cap state.files)],
                  Tail(paths))

Written(paths) ==
    LET after == WriteAll([files |-> rfiles, again |-> rewritten], paths)
    IN  /\ rfiles' = after.files
        /\ rewritten' = after.again

\* an exception is met only while the run has not met MaxFaults of them
MayFail == rfaults < MaxFaults

\* main has found the source image (lines 422-424); the output tree is empty
InitRun ==
    /\ rpc = "dirs"
    /\ rsize \in RunSizes
    /\ rdirs = {}
    /\ rfiles = {}
    /\ rewritten = {}
    /\ ri = 0
    /\ rlast = NoRun
    /\ rfaults = 0
    /\ rsliced = {}
    /\ KeyIdle
    /\ EnvIdle
    /\ ExtractIdle
    /\ SplitIdle
    /\ NameIdle
    /\ MainIdle
    /\ PixIdle
    /\ EffectIdle
    /\ DeckIdle

\* line 428 and lines 153-170: every directory of the list is made
RunCreateDirectories ==
    /\ rpc = "dirs"
    /\ rdirs' = rdirs \cup UNION { MakeDirs(dir) : dir \in CreatedDirs }
    /\ rpc' = "load"
    /\ UNCHANGED <<rsize, rfiles, rewritten, ri, rlast, rfaults, rsliced, outsideRun>>

\* line 169: os.makedirs raises, and nothing in main catches it
RunCreateDirectoriesFail ==
    /\ rpc = "dirs"
    /\ MayFail
    /\ rfaults' = rfaults + 1
    /\ rpc' = "crashed"
    /\ UNCHANGED <<rsize, rdirs, rfiles, rewritten, ri, rlast, rsliced, outsideRun>>

\* lines 209-216: the composite is opened
RunLoad ==
    /\ rpc = "load"
    /\ rpc' = "assets"
    /\ UNCHANGED <<rsize, rdirs, rfiles, rewritten, ri, rlast, rfaults, rsliced,
                   outsideRun>>

\* lines 218-220 and 432-434: the composite cannot be opened, main returns
RunLoadFail ==
    /\ rpc = "load"
    /\ MayFail
    /\ rfaults' = rfaults + 1
    /\ rpc' = IF AfterExtract(ExtractResult(FALSE, 0, Len(ASSETS))) = "ended"
              THEN "ended" ELSE "fighters"
    /\ UNCHANGED <<rsize, rdirs, rfiles, rewritten, ri, rlast, rsliced, outsideRun>>

\* lines 224-257: one descriptor of the table
RunExtractOne ==
    /\ rpc = "assets"
    /\ ri < Len(ASSETS)
    /\ \E fault \in Faults :
        /\ fault # "none" => MayFail
        /\ LET asset == ASSETS[ri + 1]
               attempt == SaveInto(rdirs, asset.path,
                                   Attempt(asset.region, rsize, fault, FALSE, FALSE))
           IN  /\ rlast' = [path |-> asset.path, attempt |-> attempt]
               /\ Written(IF attempt.status = "OK" THEN <<asset.path>> ELSE <<>>)
        /\ rfaults' = IF fault = "none" THEN rfaults ELSE rfaults + 1
    /\ ri' = ri + 1
    /\ UNCHANGED <<rpc, rsize, rdirs, rsliced, outsideRun>>

\* line 260: the table is exhausted and extract_assets returns True
RunExtractReturn ==
    /\ rpc = "assets"
    /\ ri >= Len(ASSETS)
    /\ ri' = 0
    /\ rpc' = "fighters"
    /\ UNCHANGED <<rsize, rdirs, rfiles, rewritten, rlast, rfaults, rsliced, outsideRun>>

\* lines 438-439: split_fighter_spritesheet(fighter); the sheet is there when
\* this run extracted it
RunSplitFighter ==
    /\ rpc = "fighters"
    /\ ri < Len(Fighters)
    /\ LET fighter == Fighters[ri + 1]
           exists == FighterSheetPath(fighter) \in rfiles
       IN  \E rec \in SheetOutcomes("fighter", fighter, FighterFrames, exists) :
               /\ rec.outcome = "error" => MayFail
               /\ rfaults' = IF rec.outcome = "error" THEN rfaults + 1 ELSE rfaults
               /\ Written(FighterFramePaths(fighter, rec.written))
    /\ ri' = ri + 1
    /\ UNCHANGED <<rpc, rsize, rdirs, rlast, rsliced, outsideRun>>

RunFightersDone ==
    /\ rpc = "fighters"
    /\ ri >= Len(Fighters)
    /\ ri' = 0
    /\ rpc' = "effects"
    /\ UNCHANGED <<rsize, rdirs, rfiles, rewritten, rlast, rfaults, rsliced, outsideRun>>

\* lines 451-452: split_effect_spritesheet(effect_name, num_frames)
RunSplitEffect ==
    /\ rpc = "effects"
    /\ ri < Len(Effects)
    /\ LET effect == Effects[ri + 1][1]
           num_frames == Effects[ri + 1][2]
           exists == EffectSheetPath(effect) \in rfiles
       IN  /\ rsliced' = rsliced \cup { <<effect, num_frames>> }
           /\ \E rec \in SheetOutcomes("effect", effect, num_frames, exists) :
               /\ rec.outcome = "error" => MayFail
               /\ rfaults' = IF rec.outcome = "error" THEN rfaults + 1 ELSE rfaults
               /\ rdirs' = IF rec.madeDir THEN rdirs \cup MakeDirs(EffectFrameDir(effect))
                           ELSE rdirs
               /\ Written(EffectFramePaths(effect, rec.written))
    /\ ri' = ri + 1
    /\ UNCHANGED <<rpc, rsize, rlast, outsideRun>>

RunEffectsDone ==
    /\ rpc = "effects"
    /\ ri >= Len(Effects)
    /\ ri' = 0
    /\ rpc' = "manifest"
    /\ UNCHANGED <<rsize, rdirs, rfiles, rewritten, rlast, rfaults, rsliced, outsideRun>>

\* line 456 and lines 409-411: animations.json is written, and main ends
RunCreateAnimationJson ==
    /\ rpc = "manifest"
    /\ Written(<<ManifestPath>>)
    /\ rpc' = "ended"
    /\ UNCHANGED <<rsize, rdirs, ri, rlast, rfaults, rsliced, outsideRun>>

\* lines 409-411: open or json.dump raises, and nothing in main catches it
RunCreateAnimationJsonFail ==
    /\ rpc = "manifest"
    /\ MayFail
    /\ rfaults' = rfaults + 1
    /\ rpc' = "crashed"
    /\ UNCHANGED <<rsize, rdirs, rfiles, rewritten, ri, rlast, rsliced, outsideRun>>

NextRun ==
    \/ RunCreateDirectories
    \/ RunCreateDirectoriesFail
    \/ RunLoad
    \/ RunLoadFail
    \/ RunExtractOne
    \/ RunExtractReturn
    \/ RunSplitFighter
    \/ RunFightersDone
    \/ RunSplitEffect
    \/ RunEffectsDone
    \/ RunCreateAnimationJson
    \/ RunCreateAnimationJsonFail

SpecRun == InitRun /\ [][NextRun]_vars

----------------------------------------------------------------------------
(* create_presentation_v2.py: the deck is drawn on one canvas, page by page. *)
(* What is drawn is kept as a list of operations, each with its text.       *)

Op(op, text) == [op |-> op, text |-> text]

\* canvas.showPage: the open page is closed as it is, and a new one opened
ShowPage(pages, code) == Append(pages, code)

\* canvas.save: a page with something drawn on it is closed first
PagesAtSave(pages, code) == IF code = <<>> THEN pages ELSE ShowPage(pages, code)

\* mutant: main renders the leaderboard before the ranking
DeckSwapped ==
    <<"slide_title", "slide_overview", "slide_game_mechanics", "slide_bot_ai",
      "slide_leaderboard", "slide_ranking", "slide_betting", "slide_architecture",
      "slide_roadmap", "slide_summary">>

\* lines 616-645: the slide functions in the order main calls them
Deck ==
    <<"slide_title", "slide_overview", "slide_game_mechanics", "slide_bot_ai",
      "slide_ranking", "slide_leaderboard", "slide_betting", "slide_architecture",
      "slide_roadmap", "slide_summary">>

\* line 59-89: slide_title draws its own page and never calls create_slide
CallsCreateSlide(fn) == fn # "slide_title"

SlideArgs(page_num, title, subtitle) ==
    [page_num |-> page_num, title |-> title, subtitle |-> <<subtitle>>]

\* the arguments of the create_slide call that opens each slide function
CreateSlideCall(fn) ==
    CASE fn = "slide_overview" ->
            SlideArgs(2, "What is Clawdbot Arena v2?", "The Evolution")
      [] fn = "slide_game_mechanics" ->
            SlideArgs(3, "Combat Mechanics", "Castle Crashers-Style Fighting")
      [] fn = "slide_bot_ai" ->
            SlideArgs(4, "Bot AI System", "How Clawdbots Develop Strategies")
      [] fn = "slide_ranking" ->
            SlideArgs(5, "ELO Ranking System", "Competitive Progression")
      [] fn = "slide_leaderboard" ->
            SlideArgs(6, "Live Leaderboard", "Real-Time Rankings")
      [] fn = "slide_betting" ->
            SlideArgs(7, "Betting System", "$COMP Token Integration")
      [] fn = "slide_architecture" ->
            SlideArgs(8, "Technical Architecture", "How It All Connects")
      [] fn = "slide_roadmap" ->
            SlideArgs(9, "Implementation Roadmap", "5-Week Development Plan")
      [] fn = "slide_summary" ->
            SlideArgs(10, "Summary", "Clawdbot Arena v2")

\* the slide function that is running
DeckFn == Deck[dk]

\* a fresh canvas; a file of an earlier run may be there, and the file may
\* not be writable
InitDeck ==
    /\ dpc = "main"
    /\ dk = 0
    /\ dcode = <<>>
    /\ dpages = <<>>
    /\ dlog = <<>>
    /\ \E before \in {"none", "old"} : dfile = [state |-> before, pages |-> <<>>, writes |-> 0]
    /\ dwritable \in BOOLEAN
    /\ KeyIdle
    /\ EnvIdle
    /\ ExtractIdle
    /\ SplitIdle
    /\ NameIdle
    /\ MainIdle
    /\ PixIdle
    /\ EffectIdle
    /\ RunIdle

\* lines 617-644: main calls the next slide function
DeckCall ==
    /\ dpc = "main"
    /\ dk < Len(Deck)
    /\ dk' = dk + 1
    /\ dlog' = Append(dlog, Deck[dk + 1])
    /\ dpc' = IF CallsCreateSlide(Deck[dk + 1]) THEN "background" ELSE "body"
    /\ UNCHANGED <<dcode, dpages, dfile, dwritable, outsideDeck>>

\* lines 30-36: the background and the header bar
DeckBackground ==
    /\ dpc = "background"
    /\ dcode' = dcode \o <<Op("rect", <<>>), Op("roundRect", <<>>)>>
    /\ dpc' = "title"
    /\ UNCHANGED <<dk, dpages, dlog, dfile, dwritable, outsideDeck>>

\* lines 38-41: the title; line 44: the subtitle follows when there is one
DeckTitle ==
    /\ dpc = "title"
    /\ dcode' = Append(dcode, Op("title", <<CreateSlideCall(DeckFn).title>>))
    /\ dpc' = IF CreateSlideCall(DeckFn).subtitle # <<>> THEN "subtitle" ELSE "page_num"
    /\ UNCHANGED <<dk, dpages, dlog, dfile, dwritable, outsideDeck>>

\* lines 45-47
DeckSubtitle ==
    /\ dpc = "subtitle"
    /\ dcode' = Append(dcode, Op("subtitle", CreateSlideCall(DeckFn).subtitle))
    /\ dpc' = "page_num"
    /\ UNCHANGED <<dk, dpages, dlog, dfile, dwritable, outsideDeck>>

\* lines 50-52: drawRightString of f"{page_num}"
DeckPageNumber ==
    /\ dpc = "page_num"
    /\ dcode' = Append(dcode, Op("page_num", Decimal(CreateSlideCall(DeckFn).page_num)))
    /\ dpc' = "footer"
    /\ UNCHANGED <<dk, dpages, dlog, dfile, dwritable, outsideDeck>>

\* lines 55-57
DeckFooter ==
    /\ dpc = "footer"
    /\ dcode' = Append(dcode, Op("footer", <<"Clawdbot Arena v2 | Castle Crashers Edition">>))
    /\ dpc' = "body"
    /\ UNCHANGED <<dk, dpages, dlog, dfile, dwritable, outsideDeck>>

\* the rest of the slide function: what it draws of its own
DeckBody ==
    /\ dpc = "body"
    /\ dcode' = Append(dcode, Op("body", <<DeckFn>>))
    /\ dpc' = "break"
    /\ UNCHANGED <<dk, dpages, dlog, dfile, dwritable, outsideDeck>>

\* lines 618-645: c.showPage() after the slide function
DeckShowPage ==
    /\ dpc = "break"
    /\ dpages' = ShowPage(dpages, dcode)
    /\ dcode' = <<>>
    /\ dlog' = Append(dlog, "showPage")
    /\ dpc' = "main"
    /\ UNCHANGED <<dk, dfile, dwritable, outsideDeck>>

\* line 647: c.save() writes the document
DeckSave ==
    /\ dpc = "main"
    /\ dk >= Len(Deck)
    /\ dwritable
    /\ dpages' = PagesAtSave(dpages, dcode)
    /\ dcode' = <<>>
    /\ dfile' = [state |-> "new", pages |-> dpages', writes |-> dfile.writes + 1]
    /\ dlog' = Append(dlog, "save")
    /\ dpc' = "done"
    /\ UNCHANGED <<dk, dwritable, outsideDeck>>

\* line 647: the file cannot be written; c.save() raises and main ends there
DeckSaveFail ==
    /\ dpc = "main"
    /\ dk >= Len(Deck)
    /\ ~dwritable
    /\ dlog' = Append(dlog, "save")
    /\ dpc' = "crashed"
    /\ UNCHANGED <<dk, dcode, dpages, dfile, dwritable, outsideDeck>>

NextDeck ==
    \/ DeckCall
    \/ DeckBackground
    \/ DeckTitle
    \/ DeckSubtitle
    \/ DeckPageNumber
    \/ DeckFooter
    \/ DeckBody
    \/ DeckShowPage
    \/ DeckSave
    \/ DeckSaveFail

SpecDeck == InitDeck /\ [][NextDeck]_vars

----------------------------------------------------------------------------
(* Claims about extract_assets (Spec) *)

\* the try statement of an iteration has just ended, one way or the other
Tried == epc = "iterated"

RX == cur.region[1]
RY == cur.region[2]
RW == cur.region[3]
RH == cur.region[4]
SrcW == srcSize[1]
SrcH == srcSize[2]

FullyInside == 0 <= RX /\ 0 <= RY /\ RX + RW <= SrcW /\ RY + RH <= SrcH

\* the rectangle and the image share at least one pixel
Overlaps == RX < SrcW /\ RX + RW > 0 /\ RY < SrcH /\ RY + RH > 0 /\ RW > 0 /\ RH > 0

\* a rectangle of positive width and height that shares no pixel with the image
FullyOutside ==
    /\ RW > 0 /\ RH > 0
    /\ (RX >= SrcW \/ RY >= SrcH \/ RX + RW <= 0 \/ RY + RH <= 0)

\* coordinates on and next to every edge of the rectangle and of the image
ProbesX == { v + d : v \in {0, SrcW, RX, RX + RW}, d \in {-1, 0, 1} }
ProbesY == { v + d : v \in {0, SrcH, RY, RY + RH}, d \in {-1, 0, 1} }

\* C1: for a descriptor whose rectangle lies fully inside the source image the
\* clamped crop box is exactly (x, y, x + w, y + h), and the image cropped
\* (and saved, when the item succeeds) is w pixels wide and h pixels high.
C1_InsideKeepsDeclaredSize ==
    Tried /\ FullyInside =>
        /\ cur.crop_box = <<RX, RY, RX + RW, RY + RH>>
        /\ cur.stage # "crop" => cur.cropped = <<RW, RH>>
        /\ cur.error \notin {"ValueError"}

\* scenario 1: the only descriptor of the table, (0, 12, 295, 115) on the
\* 1024x559 composite, has been saved at 295x115
C1_Witness ==
    /\ Tried
    /\ srcSize = <<1024, 559>>
    /\ nAssets = 1
    /\ cur.region = <<0, 12, 295, 115>>
    /\ cur.status = "OK"
    /\ cur.cropped = <<295, 115>>
    /\ files = {1}

\* C2: for a descriptor whose rectangle lies partly outside the image and still
\* overlaps it, the crop box is the intersection of the rectangle with
\* [0, width] x [0, height] (a column or row is in the box exactly when it is
\* in the rectangle and in the image), the box is not rejected, and the item
\* fails only if the environment fails it; (1000, 12, 295, 115) on a
\* 1024-wide image gives a crop 24 wide.
C2_PartlyOutsideClampsToIntersection ==
    Tried /\ Overlaps /\ ~FullyInside =>
        /\ \A i \in ProbesX :
            (cur.crop_box[1] <= i /\ i < cur.crop_box[3])
                <=> (RX <= i /\ i < RX + RW /\ 0 <= i /\ i < SrcW)
        /\ \A j \in ProbesY :
            (cur.crop_box[2] <= j /\ j < cur.crop_box[4])
                <=> (RY <= j /\ j < RY + RH /\ 0 <= j /\ j < SrcH)
        /\ cur.error \in {"none", "EnvError"}
        /\ cur.stage # "crop" =>
            cur.cropped = <<cur.crop_box[3] - cur.crop_box[1], cur.crop_box[4] - cur.crop_box[2]>>
        /\ (srcSize[1] = 1024 /\ cur.region = <<1000, 12, 295, 115>>) =>
            cur.crop_box[3] - cur.crop_box[1] = 24

\* scenario 2: (1000, 12, 295, 115) on the 1024-wide composite was saved 24 wide
C2_Witness ==
    /\ Tried
    /\ srcSize = <<1024, 559>>
    /\ cur.region = <<1000, 12, 295, 115>>
    /\ cur.status = "OK"
    /\ cur.cropped = <<24, 115>>
    /\ cur.idx \in files

\* C3: for a descriptor whose rectangle lies fully outside the image the
\* clamped box has zero area with left <= right and upper <= lower, and the
\* descriptor is processed as a degenerate crop, not as an error.
C3_OutsideIsZeroAreaBox ==
    Tried /\ FullyOutside =>
        /\ cur.crop_box[1] <= cur.crop_box[3]
        /\ cur.crop_box[2] <= cur.crop_box[4]
        /\ (cur.crop_box[1] = cur.crop_box[3] \/ cur.crop_box[2] = cur.crop_box[4])
        /\ cur.error \notin {"ValueError", "SystemError"}

\* the positions of the table whose entry in the log is "OK"
Succeeded == { i \in 1 .. Len(elog) : elog[i] = "OK" }

\* C4: a failure in the crop, the keying or the save of a descriptor is logged
\* as that descriptor's entry only; the loop goes on to every later
\* descriptor of the table, so that when the function ends on a loaded
\* source every descriptor has been attempted; and the outputs of the
\* descriptors that succeeded are all still there.
C4_FailureSkipsOnlyItsDescriptor ==
    /\ Tried => /\ Len(elog) = cur.idx
                /\ elog[cur.idx] = cur.status
                /\ (cur.status = "ERROR") <=> (cur.error # "none")
    /\ (epc = "loop" /\ Len(elog) < nAssets) => ENABLED ExtractFetch
    /\ (epc = "returned" /\ srcLoadable) => Len(elog) = nAssets
    /\ epc \in {"try", "iterated"} => cur.idx <= nAssets
    /\ files = Succeeded

\* the second of three descriptors failed and the third was still saved
C4_Witness ==
    /\ epc = "returned"
    /\ elog = <<"OK", "ERROR", "OK">>
    /\ files = {1, 3}

\* C5: the final line reads N/M with M the number of descriptors of the table
\* and N the number of descriptors whose crop, keying and save all completed;
\* throughout the loop 0 <= N <= descriptors attempted <= M.
C5_FinalCount ==
    /\ 0 <= extracted_count
    /\ extracted_count <= Len(elog)
    /\ Len(elog) <= nAssets
    /\ extracted_count = Cardinality(Succeeded)
    /\ Tried => ((cur.status = "OK") <=> (cur.stage = "saved" /\ cur.error = "none"))
    /\ (epc = "returned" /\ eret = TRUE) =>
        summary = <<Cardinality(Succeeded), nAssets>>
    /\ summary # NoRun => (epc = "returned" /\ eret = TRUE)

\* the run ended printing 1/3: two of the three descriptors failed
C5_Witness ==
    /\ epc = "returned"
    /\ eret = TRUE
    /\ nAssets = 3
    /\ summary = <<1, 3>>
    /\ Cardinality({ i \in 1 .. 3 : elog[i] = "ERROR" }) = 2

----------------------------------------------------------------------------
(* Claims about split_fighter_spritesheet (SpecSplit) *)

\* the name table of the claim, by frame index
FrameNameAt(i) ==
    CASE i = 0 -> "idle" [] i = 1 -> "walk" [] i = 2 -> "jump" [] i = 3 -> "attack1"
      [] i = 4 -> "attack2" [] i = 5 -> "special" [] i = 6 -> "hit" [] i = 7 -> "ko"

SheetW == sheetSize[1]
SheetH == sheetSize[2]

\* the columns and the rows of the sheet that a frame holds
FrameCols(f) == f.box[1] .. f.box[3] - 1
FrameRows(f) == f.box[2] .. f.box[4] - 1

\* every frame is floor(W / 4) wide and floor(H / 2) high, the last W mod 4
\* columns and H mod 2 rows are in no frame, and a finished cut holds every
\* other column and row; 296x114 and 298x114 give 74x57 frames
TruncatedGrid ==
    /\ \A f \in frames :
        /\ f.box[3] - f.box[1] = SheetW \div 4
        /\ f.box[4] - f.box[2] = SheetH \div 2
        /\ \A c \in SheetW - (SheetW % 4) .. SheetW - 1 : c \notin FrameCols(f)
        /\ \A r \in SheetH - (SheetH % 2) .. SheetH - 1 : r \notin FrameRows(f)
        /\ sheetSize \in { <<296, 114>>, <<298, 114>> } =>
            f.box[3] - f.box[1] = 74 /\ f.box[4] - f.box[2] = 57
    /\ spc = "done" =>
        /\ Cardinality(frames) = 8
        /\ UNION { FrameCols(f) : f \in frames } = 0 .. SheetW - (SheetW % 4) - 1
        /\ UNION { FrameRows(f) : f \in frames } = 0 .. SheetH - (SheetH % 2) - 1

\* a frame of the grid is still to be cut
FramePending == spc = "loop" /\ srow < 2

\* C11 as stated: the grid is the truncated one and, whatever the size of the
\* sheet, cutting the next frame raises nothing on account of the size.
C11_TruncatesWithoutErrorAnySize ==
    spc \in {"loop", "done", "failed"} =>
        /\ TruncatedGrid
        /\ FramePending => ENABLED SplitFrame

\* C11, amended: the grid is the truncated one and, for a sheet at least 4
\* wide and 2 high, cutting the next frame raises nothing on account of the
\* size (a narrower or lower sheet gives frames without pixels, whose save
\* may raise).
C11_TruncatesWithoutError ==
    spc \in {"loop", "done", "failed"} =>
        /\ TruncatedGrid
        /\ (FramePending /\ SheetW >= 4 /\ SheetH >= 2) => ENABLED SplitFrame

\* a 298x114 sheet has been cut into eight 74x57 frames; columns 296 and 297
\* are in none of them
C11_Witness ==
    /\ spc = "done"
    /\ sheetSize = <<298, 114>>
    /\ Cardinality(frames) = 8
    /\ \A f \in frames : f.box[3] - f.box[1] = 74 /\ f.box[4] - f.box[2] = 57
    /\ \A f \in frames : 296 \notin FrameCols(f) /\ 297 \notin FrameCols(f)

FrameArea(f) == (f.box[3] - f.box[1]) * (f.box[4] - f.box[2])

RECURSIVE TotalArea(_)
TotalArea(S) ==
    IF S = {} THEN 0
    ELSE LET f == CHOOSE g \in S : TRUE IN FrameArea(f) + TotalArea(S \ {f})

----------------------------------------------------------------------------
(* Claims about the frame name expression (SpecName) *)

\* the number a sequence of decimal digits stands for
RECURSIVE DigitsValue(_)
DigitsValue(ds) ==
    IF ds = <<>> THEN 0 ELSE 10 * DigitsValue(SubSeq(ds, 1, Len(ds) - 1)) + ds[Len(ds)]

\* C13: an index inside the table of eight names gets the table's name at
\* that index (0 idle, 1 walk, ... 7 ko); an index beyond it gets "frame_"
\* followed by the index written in decimal without padding.
C13_TableNameOrFallback ==
    npc = "named" =>
        IF nidx < 8
        THEN /\ nname = AnimationNames[nidx + 1]
             /\ nname = <<"idle", "walk", "jump", "attack1", "attack2",
                          "special", "hit", "ko">>[nidx + 1]
        ELSE /\ Head(nname) = "frame_"
             /\ DigitsValue(Tail(nname)) = nidx
             /\ \A i \in 1 .. Len(Tail(nname)) : Tail(nname)[i] \in 0 .. 9
             /\ Tail(nname)[1] # 0
             /\ nidx = 12 => nname = <<"frame_", 1, 2>>

\* index 12, beyond the table, has been named frame_12
C13_Witness ==
    /\ npc = "named"
    /\ nidx = 12
    /\ nname = <<"frame_", 1, 2>>

----------------------------------------------------------------------------
(* Claims about main (SpecMain) *)

\* the steps recorded so far that are of one kind
StepsOf(step) == { k \in DOMAIN mlog : mlog[k].step = step }

\* C14: with no source image at the start, the run logs the error and ends at
\* once: no directory is made, no descriptor extracted, no spritesheet sliced,
\* no manifest written.
C14_MissingSourceEndsRun ==
    (mpc # "check" /\ ~srcExists) =>
        /\ mpc = "ended"
        /\ mlog = << Event("source not found", "", 0) >>
        /\ mdirs = {}
        /\ mcount = 0
        /\ last = NoSheet
        /\ manifest = {}

\* a run without its source image has ended, with the error as the only
\* thing it did
C14_Witness ==
    /\ mpc = "ended"
    /\ ~srcExists
    /\ mlog = << Event("source not found", "", 0) >>
    /\ mdirs = {}

\* the ten spritesheets in the order main deals with them
SheetOrder == Fighters \o [i \in 1 .. Len(Effects) |-> Effects[i][1]]

SheetPosition(item) == CHOOSE i \in 1 .. Len(SheetOrder) : SheetOrder[i] = item

\* C15: a spritesheet missing when its slicing step runs is skipped with no
\* frame written (and no frame directory made); the run goes on, and when it
\* has ended every later spritesheet has had its step and the manifest is
\* written.
C15_MissingSheetSkipped ==
    /\ last.outcome = "skipped" => (last.written = 0 /\ ~last.madeDir)
    /\ firstSkipped # "none" =>
        /\ mpc # "ended" => ENABLED NextMain
        /\ mpc = "ended" =>
            /\ \A i \in SheetPosition(firstSkipped) + 1 .. Len(SheetOrder) :
                \E k, n \in DOMAIN mlog :
                    /\ mlog[k].item = firstSkipped
                    /\ mlog[n].item = SheetOrder[i]
                    /\ k < n
            /\ StepsOf("manifest") # {}
            /\ manifest # {}

\* the first fighter's sheet was missing; the run ended with the last effect
\* sliced into its frames and the manifest written
C15_Witness ==
    /\ mpc = "ended"
    /\ firstSkipped = "alphabot"
    /\ last = Sheet("effect", "energy-charge", "ok", 4, TRUE)
    /\ manifest # {}

\* the steps of a whole run over a table of n descriptors
WholeRun(n) ==
    << Event("dirs", "", 0) >>
        \o [i \in 1 .. n |-> Event("asset", "", i - 1)]
        \o [i \in 1 .. Len(Fighters) |-> Event("fighter", Fighters[i], i - 1)]
        \o [i \in 1 .. Len(Effects) |-> Event("effect", Effects[i][1], i - 1)]
        \o << Event("manifest", "", 0) >>

IsPrefix(a, b) == Len(a) <= Len(b) /\ a = SubSeq(b, 1, Len(a))

\* C16 as stated: every run that gets past the source check creates the
\* directories, extracts every descriptor, slices the four fighters, slices
\* the six effects and writes the manifest last, in that order.
C16_StepsInOrderEveryRun ==
    srcExists =>
        /\ IsPrefix(mlog, WholeRun(tableLen))
        /\ mpc = "ended" => mlog = WholeRun(tableLen)

\* C16, amended: a run that gets past the source check creates the
\* directories first; if the source image then loads, every descriptor is
\* extracted, then the four fighters are sliced, then the six effects, and the
\* manifest is written last, nothing being written after it; if the source
\* image does not load, the run ends after the directories with nothing
\* extracted, sliced or written.
C16_StepsInOrder ==
    srcExists =>
        /\ srcLoads =>
            /\ IsPrefix(mlog, WholeRun(tableLen))
            /\ mpc = "ended" => mlog = WholeRun(tableLen)
            /\ mpc \in {"fighters", "effects"} =>
                Cardinality(StepsOf("asset")) = tableLen
        /\ ~srcLoads =>
            /\ IsPrefix(mlog, << Event("dirs", "", 0), Event("extraction failed", "", 0) >>)
            /\ mpc = "ended" => Len(mlog) = 2
            /\ manifest = {} /\ last = NoSheet /\ mcount = 0
        /\ mpc \notin {"check", "dirs"} => mdirs = OutputDirs

\* a run over a table of three descriptors has ended with all its steps taken
C16_Witness ==
    /\ mpc = "ended"
    /\ srcExists /\ srcLoads
    /\ tableLen = 3
    /\ mlog = WholeRun(3)
    /\ mlog[Len(mlog)].step = "manifest"

\* every clip of the written manifest: those of the fighters, those of the
\* effects
FighterClipsWritten ==
    UNION { UNION { { m.content.fighters[f][c] : c \in DOMAIN m.content.fighters[f] } :
                      f \in DOMAIN m.content.fighters } : m \in manifest }

EffectClipsWritten ==
    UNION { { m.content.effects[e] : e \in DOMAIN m.content.effects } : m \in manifest }

RateAndRepeatOk(clip) == clip.frameRate > 0 /\ clip.repeat \in {0, -1}

TableSteps == [i \in 1 .. tableLen |-> Event("asset", "", i - 1)]
FighterSteps == [i \in 1 .. Len(Fighters) |-> Event("fighter", Fighters[i], i - 1)]
EffectSteps == [i \in 1 .. Len(Effects) |-> Event("effect", Effects[i][1], i - 1)]

\* the steps of one kind, in the order they were taken
RECURSIVE Only(_, _)
Only(log, step) ==
    IF log = <<>> THEN <<>>
    ELSE IF Head(log).step = step THEN <<Head(log)>> \o Only(Tail(log), step)
         ELSE Only(Tail(log), step)

\* C18: no retries. The attempts of each loop are a prefix of its table, so
\* no item is attempted twice or out of order, a failed one included; once a
\* loop is over (in a run whose source image exists and loads) each of its
\* items has been attempted exactly once.
C18_EachItemOnce ==
    /\ IsPrefix(Only(mlog, "asset"), TableSteps)
    /\ IsPrefix(Only(mlog, "fighter"), FighterSteps)
    /\ IsPrefix(Only(mlog, "effect"), EffectSteps)
    /\ mpc \in {"fighters", "effects", "manifest", "summary"} =>
        Only(mlog, "asset") = TableSteps
    /\ mpc \in {"effects", "manifest", "summary"} => Only(mlog, "fighter") = FighterSteps
    /\ mpc \in {"manifest", "summary"} => Only(mlog, "effect") = EffectSteps
    /\ (mpc = "ended" /\ manifest # {}) =>
        /\ Only(mlog, "asset") = TableSteps
        /\ Only(mlog, "fighter") = FighterSteps
        /\ Only(mlog, "effect") = EffectSteps
    /\ \A k, n \in DOMAIN mlog : k # n => mlog[k] # mlog[n]

\* the first descriptor failed and so did the last effect, and the run ended
\* with every item attempted once
C18_Witness ==
    /\ mpc = "ended"
    /\ tableLen = 2
    /\ mcount = 1
    /\ firstFailed = "asset"
    /\ last.item = "energy-charge" /\ last.outcome = "error"
    /\ Len(mlog) = 1 + 2 + 4 + 6 + 1

\* C23: a source image that exists but cannot be opened or converted makes
\* extract_assets return False with no descriptor attempted, and main stops:
\* the directories are there, nothing is sliced, no manifest is written.
C23_LoadFailureStopsRun ==
    (srcExists /\ ~srcLoads /\ mpc \notin {"check", "dirs", "load"}) =>
        /\ mpc = "ended"
        /\ mdirs = OutputDirs
        /\ StepsOf("asset") = {}
        /\ StepsOf("fighter") = {} /\ StepsOf("effect") = {}
        /\ last = NoSheet
        /\ mcount = 0
        /\ StepsOf("manifest") = {} /\ manifest = {}
        /\ mlog[Len(mlog)] = Event("extraction failed", "", 0)

\* the run of an unreadable source has ended after the directories
C23_Witness ==
    /\ mpc = "ended"
    /\ srcExists /\ ~srcLoads
    /\ mdirs = OutputDirs
    /\ mlog = << Event("dirs", "", 0), Event("extraction failed", "", 0) >>

\* C24: once the source image has loaded, main goes on to the slicing steps
\* whatever the number of descriptors that failed, zero extracted included:
\* the run never stops before the end, and at its end the four fighters and
\* the six effects have had their step and the manifest is written.
C24_FailuresDoNotStopRun ==
    (srcExists /\ srcLoads) =>
        /\ mpc # "ended" => ENABLED NextMain
        /\ (mpc = "assets" /\ mi >= tableLen) => ENABLED MainExtractReturn
        /\ mpc \in {"fighters", "effects", "manifest", "summary", "ended"} =>
            /\ mcount \in 0 .. tableLen
            /\ Cardinality(StepsOf("asset")) = tableLen
        /\ mpc = "ended" =>
            /\ Cardinality(StepsOf("fighter")) = 4
            /\ Cardinality(StepsOf("effect")) = 6
            /\ manifest # {}

\* all three descriptors failed, and the run ended with the ten spritesheets
\* dealt with and the manifest written
C24_Witness ==
    /\ mpc = "ended"
    /\ tableLen = 3
    /\ mcount = 0
    /\ firstFailed = "asset"
    /\ Cardinality(StepsOf("fighter")) = 4
    /\ Cardinality(StepsOf("effect")) = 6
    /\ manifest # {}

\* C25: the fighter slicer and the manifest agree. For each of the four
\* fighters the clip names of the manifest are the names of the slicer's
\* table; a frame the slicer saves under name n at index i is the one frame
\* that the clip n lists (idle 0, walk 1, jump 2, attack1 3, attack2 4,
\* special 5, hit 6, ko 7); every index in the manifest is below the 8 frames
\* of the slicer.
C25_SlicerAndManifestAgree ==
    \A fighter \in DOMAIN Animations.fighters :
        LET clips == Animations.fighters[fighter]
        IN  /\ DOMAIN clips = { AnimationNames[i] : i \in DOMAIN AnimationNames }
            /\ \A f \in frames :
                /\ f.name \in DOMAIN clips
                /\ clips[f.name].frames = JsonList(<<f.idx>>)
                /\ f.idx = CHOOSE i \in 0 .. 7 :
                     <<"idle", "walk", "jump", "attack1", "attack2",
                       "special", "hit", "ko">>[i + 1] = f.name
            /\ \A c \in DOMAIN clips :
                \A k \in DOMAIN clips[c].frames.items :
                    clips[c].frames.items[k] < frame_rows * frames_per_row
            /\ spc = "done" => { f.name : f \in frames } = DOMAIN clips

\* a sheet has been cut into its eight frames, "attack2" saved at index 4 and
\* listed as [4] for ironlogic
C25_Witness ==
    /\ spc = "done"
    /\ Cardinality(frames) = 8
    /\ \E f \in frames : f.name = "attack2" /\ f.idx = 4
    /\ Animations.fighters["ironlogic"]["attack2"].frames = JsonList(<<4>>)

----------------------------------------------------------------------------
(* Claims about extract_assets at the level of pixels (SpecPix) *)

\* the crop of an image as a value: the pixels of the box, moved to the origin
CropOf(image, box) ==
    [mode |-> image.mode, width |-> CroppedSize(box)[1], height |-> CroppedSize(box)[2],
     px |-> [q \in Positions(CroppedSize(box)[1], CroppedSize(box)[2]) |->
               image.px[<<box[1] + q[1], box[2] + q[2]>>]]]

PixBox == ClampBox(pregion, <<ploaded.width, ploaded.height>>)

\* C19: the loaded composite is never mutated. At every point of the loop the
\* source object holds the pixels it held right after loading, every crop is
\* the crop of the composite as loaded, whatever was cropped and keyed
\* before, and what is keyed and saved is the keyed crop of it.
C19_SourceNeverMutated ==
    ppc # "idle" =>
        /\ psource = Ref(1, 0, 0, ploaded.width, ploaded.height)
        /\ pheap[psource.obj] = ploaded
        /\ Content(pheap, psource) = ploaded
        /\ ppc = "cropped" => Content(pheap, pcropped) = CropOf(ploaded, PixBox)
        /\ ppc = "keyed" =>
            Content(pheap, pcropped) = RemoveCheckeredBackground(CropOf(ploaded, PixBox))
        /\ (ppc = "loop" /\ pdone > 0) =>
            Content(pheap, pcropped) = RemoveCheckeredBackground(CropOf(ploaded, PixBox))

\* a second crop overlaps the one keyed before it: a gray pixel that was made
\* transparent in the first extracted image is opaque again in the new crop
C19_Witness ==
    /\ ppc = "cropped"
    /\ pdone >= 1
    /\ \E q \in pkeyed :
        /\ PixBox[1] <= q[1] /\ q[1] < PixBox[3]
        /\ PixBox[2] <= q[2] /\ q[2] < PixBox[4]
        /\ ploaded.px[q] = <<200, 200, 200, 255>>
        /\ Content(pheap, pcropped).px[<<q[1] - PixBox[1], q[2] - PixBox[2]>>]
               = <<200, 200, 200, 255>>

\* a pixel the filter should have made transparent and that is still visible
LeftUnkeyed(p) == p[4] # 0 /\ IsKeyed(p)

NoneLeftUnkeyed(image) == \A q \in DOMAIN image.px : ~LeftUnkeyed(image.px[q])

\* the boxes split_fighter_spritesheet and split_effect_spritesheet cut out of
\* a sheet of a given size
SlicedBoxes(size) ==
    { FrameBox(row, col, ActualFrameSize(size)) :
        row \in 0 .. frame_rows - 1, col \in 0 .. frames_per_row - 1 }
    \cup UNION { { EffectFrameBox(i, EffectFrameWidth(size[1], n), size[2]) :
                     i \in 0 .. n - 1 } : n \in 1 .. MaxExpectedFrames }

\* C21: an image is keyed before it is saved: no saved extraction output, and
\* no frame cut out of one by either slicing function, holds a pixel with
\* nonzero alpha whose pairwise channel differences are all below 10 and
\* whose red level is in 180..220.
C21_SavedImagesAreKeyed ==
    \A img \in pwritten :
        /\ NoneLeftUnkeyed(img)
        /\ img = RemoveCheckeredBackground(CropOf(ploaded, PixBox))
        /\ \A box \in SlicedBoxes(<<img.width, img.height>>) :
            NoneLeftUnkeyed(CropOf(img, box))

\* a 2x2 crop with gray below red has been saved: its gray pixels are
\* transparent, its red ones opaque
C21_Witness ==
    /\ ppc = "loop"
    /\ \E img \in pwritten :
        /\ img.width = 2 /\ img.height = 2
        /\ img.px[<<0, 0>>] = <<200, 0, 0, 255>>
        /\ img.px[<<0, 1>>] = <<200, 200, 200, 0>>
        /\ img.px[<<1, 1>>] = <<200, 200, 200, 0>>

----------------------------------------------------------------------------
(* Claims about split_effect_spritesheet (SpecEffect) *)

EffectW == fxSize[1]
EffectH == fxSize[2]
EffectCols(f) == f.box[1] .. f.box[3] - 1

\* the frames written so far are frame_00 .. frame_(fxi - 1), frame i the
\* strip of columns i * floor(W / n) up to (i + 1) * floor(W / n) over the
\* full height; they are pairwise disjoint and inside the sheet, the last
\* W mod n columns are in none, and a finished cut has exactly n of them
EffectStrips ==
    LET n == expected_frames
        fw == EffectW \div n
    IN  /\ Cardinality(fxFrames) = fxi
        /\ { f.idx : f \in fxFrames } = 0 .. fxi - 1
        /\ \A f \in fxFrames :
            /\ f.name = <<"frame_", f.idx \div 10, f.idx % 10>>
            /\ f.box = <<f.idx * fw, 0, (f.idx + 1) * fw, EffectH>>
            /\ 0 <= f.box[1] /\ f.box[3] <= EffectW
            /\ \A c \in EffectW - (EffectW % n) .. EffectW - 1 : c \notin EffectCols(f)
        /\ \A f, g \in fxFrames : f # g => EffectCols(f) \cap EffectCols(g) = {}
        /\ fxpc = "done" => fxi = n

\* a frame of the strip is still to be cut
StripPending == fxpc = "loop" /\ fxi < expected_frames

----------------------------------------------------------------------------
(* Claims about a run over the literal tables (SpecRun) *)

\* a descriptor of the table has been attempted
RunAttempted == DOMAIN rlast # {}

RegionInside(region, size) ==
    /\ region[1] >= 0 /\ region[2] >= 0
    /\ region[3] > 0 /\ region[4] > 0
    /\ region[1] + region[3] <= size[1]
    /\ region[2] + region[4] <= size[2]

Unclamped(region) ==
    <<region[1], region[2], region[1] + region[3], region[2] + region[4]>>

\* C29: every region of the ASSETS table lies inside a 1024x559 image with
\* positive width and height; on a composite of that size the box of every
\* descriptor attempted is its region unclamped, and every image extracted
\* has the declared width and height.
C29_TableFitsObservedComposite ==
    /\ \A i \in DOMAIN ASSETS : RegionInside(ASSETS[i].region, ObservedSize)
    /\ (RunAttempted /\ rsize = ObservedSize) =>
          /\ rlast.attempt.crop_box = Unclamped(rlast.attempt.region)
          /\ rlast.attempt.status = "OK" =>
                rlast.attempt.cropped = <<rlast.attempt.region[3], rlast.attempt.region[4]>>

\* the last descriptor of the table, the 90x110 portrait at (825, 400), has
\* been extracted from a 1024x559 composite
C29_Witness ==
    /\ rpc = "assets"
    /\ ri = Len(ASSETS)
    /\ rsize = ObservedSize
    /\ rlast.attempt.status = "OK"
    /\ rlast.attempt.region = <<825, 400, 90, 110>>
    /\ rlast.attempt.cropped = <<90, 110>>
    /\ Cardinality(rfiles) = Len(ASSETS)

\* the effects that have a descriptor in the ASSETS table
AssetEffects ==
    { ASSETS[i].path.stem[1] :
        i \in { k \in DOMAIN ASSETS : ParentDir(ASSETS[k].path) = <<"sprites", "effects">> } }

EffectsAsked == { e[1] : e \in rsliced }

FramesIn(dir) == { path \in rfiles : path.dir = dir }

\* the effect loop of main is over
EffectsLoopOver == rpc = "manifest" \/ (rpc \in {"ended", "crashed"} /\ rsliced # {})

\* C26: the effects main slices, the effects of the manifest and the
\* sprites/effects descriptors of the ASSETS table are the same six names,
\* and the frame count the manifest gives an effect is the number of frames
\* main asks split_effect_spritesheet to write for it: 3 for block, 4 for the
\* others. A run without an exception leaves that many frame files.
C26_EffectTablesAgree ==
    /\ Cardinality(AssetEffects) = 6
    /\ DOMAIN Animations.effects = AssetEffects
    /\ \A e \in rsliced :
        /\ e[1] \in AssetEffects
        /\ Animations.effects[e[1]].frames = JsonNumber(e[2])
        /\ e[2] = IF e[1] = "block" THEN 3 ELSE 4
        /\ Cardinality(FramesIn(EffectFrameDir(e[1]))) <= e[2]
    /\ EffectsLoopOver =>
        /\ EffectsAsked = AssetEffects
        /\ rfaults = 0 =>
              \A e \in rsliced : Cardinality(FramesIn(EffectFrameDir(e[1]))) = e[2]

\* a run without an exception has ended: six effects asked for, three frames
\* of block and four of dust written
C26_Witness ==
    /\ rpc = "ended"
    /\ rfaults = 0
    /\ Cardinality(rsliced) = 6
    /\ <<"block", 3>> \in rsliced
    /\ Cardinality(FramesIn(EffectFrameDir("block"))) = 3
    /\ Cardinality(FramesIn(EffectFrameDir("dust"))) = 4

\* C27: the parent directory of every output path of the ASSETS table is in
\* the list create_directories makes, the directories are made before the
\* first descriptor is attempted, and no descriptor's save fails for a
\* missing directory.
C27_OutputDirsExistBeforeSaving ==
    /\ \A i \in DOMAIN ASSETS : ParentDir(ASSETS[i].path) \in CreatedDirs
    /\ rpc = "assets" => \A i \in DOMAIN ASSETS : ParentDir(ASSETS[i].path) \in rdirs
    /\ rfiles # {} => CreatedDirs \subseteq rdirs
    /\ RunAttempted => rlast.attempt.error # "FileNotFoundError"

\* the health bar has been saved into the ui directory
C27_Witness ==
    /\ rpc = "assets"
    /\ RunAttempted
    /\ rlast.path = Path(<<"ui">>, <<"health-bar">>, "png")
    /\ rlast.attempt.status = "OK"
    /\ rlast.path \in rfiles
    /\ <<"ui">> \in rdirs

\* every path a run can write, in the order a run without failures writes them
PlannedPaths ==
    { ASSETS[i].path : i \in DOMAIN ASSETS }
    \cup { FighterFramePath(Fighters[f], idx) :
             f \in DOMAIN Fighters, idx \in 0 .. FighterFrames - 1 }
    \cup UNION { { EffectFramePath(Effects[e][1], k) : k \in 0 .. Effects[e][2] - 1 } :
                   e \in DOMAIN Effects }
    \cup { ManifestPath }

RECURSIVE SumFrames(_)
SumFrames(effects) ==
    IF effects = <<>> THEN 0 ELSE Head(effects)[2] + SumFrames(Tail(effects))

PlannedCount ==
    Len(ASSETS) + Len(Fighters) * FighterFrames + SumFrames(Effects) + 1

\* C28: within one run no path is written twice: the paths of the extracted
\* images, of the fighter frames, of the effect frames and of the manifest
\* are pairwise distinct, and no step writes a path an earlier step of the
\* run wrote.
C28_NoPathWrittenTwice ==
    /\ Cardinality(PlannedPaths) = PlannedCount
    /\ rewritten = {}
    /\ rfiles \subseteq PlannedPaths

\* a run without an exception has ended with every planned file written,
\* the sheet, the portrait and the ko frame of ironlogic among them
C28_Witness ==
    /\ rpc = "ended"
    /\ rfiles = PlannedPaths
    /\ FighterSheetPath("ironlogic") \in rfiles
    /\ Path(<<"sprites", "fighters", "ironlogic">>, <<"portrait">>, "png") \in rfiles
    /\ FighterFramePath("ironlogic", 7) \in rfiles

----------------------------------------------------------------------------
(* Claims about the deck renderer (SpecDeck) *)

\* what a finished run logs: each slide function of main, in order, each
\* followed by one page break, and one save at the end
RECURSIVE WithBreaks(_)
WithBreaks(fns) ==
    IF fns = <<>> THEN <<>> ELSE <<Head(fns), "showPage">> \o WithBreaks(Tail(fns))

ExpectedDeckLog == Append(WithBreaks(Deck), "save")

\* the page numbers drawn on a page
PageNumbersOn(page) == { i \in DOMAIN page : page[i].op = "page_num" }

\* C30: the renderer emits exactly ten pages in a fixed order, each slide
\* function followed by exactly one page break and the document saved once
\* after the last page; each of pages 2 to 10 carries one page number, the
\* decimal text of its 1-based position, and page 1 carries none.
C30_TenPagesNumberedByPosition ==
    /\ Len(Deck) = 10
    /\ IsPrefix(dlog, ExpectedDeckLog)
    /\ Len(dpages) = Cardinality({ i \in DOMAIN dlog : dlog[i] = "showPage" })
    /\ \A p \in DOMAIN dpages :
        /\ dpages[p] # <<>>
        /\ dpages[p][Len(dpages[p])] = Op("body", <<Deck[p]>>)
        /\ IF p = 1 THEN PageNumbersOn(dpages[p]) = {}
           ELSE /\ Cardinality(PageNumbersOn(dpages[p])) = 1
                /\ \A i \in PageNumbersOn(dpages[p]) : dpages[p][i].text = Decimal(p)
    /\ dfile.writes <= 1
    /\ dfile.writes = 1 <=> dpc = "done"
    /\ dpc \in {"done", "crashed"} => dlog = ExpectedDeckLog /\ Len(dpages) = 10
    /\ dpc = "done" => dfile.state = "new" /\ dfile.pages = dpages

\* the document has been saved: ten pages, the last one numbered "10" and the
\* fifth one, the ranking slide, numbered "5"
C30_Witness ==
    /\ dpc = "done"
    /\ Len(dfile.pages) = 10
    /\ \E i \in DOMAIN dfile.pages[10] : dfile.pages[10][i] = Op("page_num", <<1, 0>>)
    /\ \E i \in DOMAIN dfile.pages[5] : dfile.pages[5][i] = Op("page_num", <<5>>)
    /\ dfile.pages[5][Len(dfile.pages[5])] = Op("body", <<"slide_ranking">>)

====
